---------------------------- MODULE Spec2Model ----------------------------
(***************************************************************************)
(* A model of the mind-map editor of src/MindMap.py: the node table, the   *)
(* parent map, the root, the id counter and the selection of one           *)
(* workspace, the handlers that change them (new root, add child, delete,  *)
(* set root, clicks, load, auto layout), the document written by save and  *)
(* read by load, and the layout engine (directions, depths, slots,         *)
(* placement).                                                             *)
(*                                                                         *)
(* Conventions.  Python's None is the number 0 (node ids are positive, and *)
(* the handlers test ids with "if not nid").  A dict is a function plus,   *)
(* where the code iterates it, the sequence of its keys in insertion       *)
(* order.  Logical coordinates and slots are fixed-point numbers: the      *)
(* integer v stands for v / Unit; every value the handlers compute is a    *)
(* dyadic rational that Unit represents exactly, so the integer arithmetic *)
(* below is the float arithmetic of the code.  A colour is a number: i+1   *)
(* is PALETTE_COLORS[i], ForeignColor is a colour outside the palette.     *)
(* An exception raised inside a handler ends the handler at that point;    *)
(* Tk reports it and the event loop goes on, so the state the handler     *)
(* reached is a state of the program: ws.exc names the exception.  A       *)
(* handler that never returns leaves ws.hung set.                          *)
(*                                                                         *)
(* Specifications.  Spec: every handler, on a workspace that is empty or   *)
(* was loaded from a document.  EditSpec: the editing handlers alone.      *)
(* ApiSpec: _create_node and _add_edge applied to any existing nodes.      *)
(* LayoutSpec: load, then one auto_layout followed round by round through  *)
(* its while loops, under weak fairness.                                   *)
(***************************************************************************)
EXTENDS Integers, Sequences, FiniteSets, TLC

\* ------------------------------------------------------------ bounds
\* Ids handed out by _new_id stay below this: create handlers are disabled
\* once next_id exceeds it.
MaxId == 3
\* Node ids of a loaded document are 1..MaxDocId.
MaxDocId == 2
\* A loaded document's children lists hold at most this many entries in all.
MaxDocEdges == 2

\* ------------------------------------------------------------ program constants
NODE_W == 160
NODE_H == 56
HORIZ_GAP == 60
VERT_GAP == 36
NODE_MARGIN == 18
PaletteLen == 10
SearchRadius == 8
FallbackRadius == 10
\* winfo_width() // 2 or 400, winfo_height() // 2 or 300: the canvas centre.
CanvasCX == 400
CanvasCY == 300
PAN_STEP == 60
\* ZOOM_STEP = 1.1, ZOOM_MIN = 0.4 and ZOOM_MAX = 2.5 in steps of 1 / ScaleUnit.
ZOOM_STEP == 11000
ZOOM_MIN == 4000
ZOOM_MAX == 25000
\* 1e-3, the scale change zoom takes for none.
ZoomEpsilon == 10

None == 0
ForeignColor == PaletteLen + 1

\* One logical unit is Unit fixed-point steps.  A slot at depth d is a
\* multiple of 1 / (2 * 4^(d-1)); depths stay below the number of ids.
RECURSIVE Pow4(_)
Pow4(n) == IF n <= 0 THEN 1 ELSE 4 * Pow4(n - 1)
Unit == 2 * Pow4(MaxId + MaxDocId)

Abs(v) == IF v < 0 THEN -v ELSE v
Max2(a, b) == IF a >= b THEN a ELSE b
Min2(a, b) == IF a <= b THEN a ELSE b

\* A scale, a zoom factor and a ratio of scales are kept in steps of
\* 1 / ScaleUnit, the scale 1.0 being ScaleUnit.  As with the floats of the
\* program, every product and quotient is rounded to the nearest step.
ScaleUnit == 100 * 100

\* a * n / d rounded to the nearest integer, halves away from zero; the
\* product is split so that no intermediate value leaves 32 bits.
MulDiv(a, n, d) ==
    LET m == Abs(a)
        v == (m \div d) * n + (2 * (m % d) * n + d) \div (2 * d)
    IN  IF a < 0 THEN -v ELSE v

\* ------------------------------------------------------------ dict helpers
\* d.get(k): None when k is no key of d.
Get(d, k) == IF k \in DOMAIN d THEN d[k] ELSE None
\* d[k] = v
Put(d, k, v) == [j \in DOMAIN d \cup {k} |-> IF j = k THEN v ELSE d[j]]
\* d.pop(k, None)
Pop(d, k) == [j \in DOMAIN d \ {k} |-> d[j]]
\* the key order of a dict after d[k] = v / d.pop(k)
OrderPut(o, k) == IF \E i \in 1..Len(o) : o[i] = k THEN o ELSE Append(o, k)
OrderPop(o, k) == SelectSeq(o, LAMBDA e : e # k)
Range(s) == {s[i] : i \in 1..Len(s)}
\* list.index(v): the first position of v, 0 when absent (ValueError)
IndexOf(s, v) ==
    IF v \in Range(s) THEN CHOOSE i \in 1..Len(s) : s[i] = v /\ \A j \in 1..(i-1) : s[j] # v
    ELSE 0
\* A faulty list.remove(v) that removes nothing; C8_AddEdge tells it apart.
RemoveNothing(s, v) == s

\* list.remove(v): drop the first occurrence
RemoveFirst(s, v) ==
    LET i == IndexOf(s, v)
    IN  IF i = 0 THEN s ELSE SubSeq(s, 1, i - 1) \o SubSeq(s, i + 1, Len(s))

\* ws is the workspace; last names the handler that ran last; declared is the
\* next_id the loaded document declared (None for a document without one);
\* run is the auto-layout run that the stepwise specification LayoutSpec
\* follows round by round; events counts the view events ViewSpec has
\* handled; route holds the values of the edge-offset memory and what the
\* path geometry has answered, which RouteSpec follows; markup is the text
\* of a node and its parse, which MarkupSpec follows.
VARIABLES ws, last, declared, run, events, route, markup

vars == <<ws, last, declared, run, events, route, markup>>

\* The drag state while no mouse button is down.
IdleDrag ==
    [mode |-> "none", id |-> None, dx |-> 0, dy |-> 0,
     start_x |-> 0, start_y |-> 0, offset_x |-> 0, offset_y |-> 0]

\* Workspace(): the fields of a fresh workspace (src/MindMap.py:46-76).
EmptyWorkspace ==
    [nodes |-> <<>>, order |-> <<>>, parent |-> <<>>, edge_offsets |-> {},
     palette_index |-> 0, selected |-> None, root_id |-> None, next_id |-> 1,
     dragging |-> IdleDrag,
     scale |-> ScaleUnit, offset_x |-> 0, offset_y |-> 0,
     exc |-> "none", hung |-> FALSE]

\* No auto-layout run is under way.
IdleRun ==
    [pc |-> "idle", root_id |-> None, rounds |-> 0,
     dir |-> [exc |-> "none", queue |-> <<>>, directions |-> <<>>],
     dep |-> [exc |-> "none", stack |-> <<>>, dep |-> [keys |-> <<>>, val |-> <<>>]]]

\* No edge has been routed.
NoRoute == [offsets |-> <<>>, answers |-> <<>>]

\* No text has been parsed.
NoMarkup == [text |-> <<>>, parsed |-> <<>>]

Init ==
    /\ ws = EmptyWorkspace
    /\ last = "init"
    /\ declared = None
    /\ run = IdleRun
    /\ events = 0
    /\ route = NoRoute
    /\ markup = NoMarkup


\* ------------------------------------------------------------ coordinate helpers
\* _to_canvas_point
ToCanvasPoint(w, x, y) ==
    <<w.offset_x + MulDiv(x, w.scale, ScaleUnit), w.offset_y + MulDiv(y, w.scale, ScaleUnit)>>

\* _from_canvas_point
FromCanvasPoint(w, x, y) ==
    IF w.scale = 0 THEN <<x, y>>
    ELSE <<MulDiv(x - w.offset_x, ScaleUnit, w.scale),
           MulDiv(y - w.offset_y, ScaleUnit, w.scale)>>

\* ------------------------------------------------------------ placement helpers
StepX == (NODE_W + HORIZ_GAP) * Unit
StepY == (NODE_H + VERT_GAP) * Unit

\* _is_position_free
IsPositionFree(nodes, x, y) ==
    \A n \in DOMAIN nodes :
        ~(Abs(x - nodes[n].x) < (NODE_W + NODE_MARGIN) * Unit
          /\ Abs(y - nodes[n].y) < (NODE_H + NODE_MARGIN) * Unit)

\* The cells of the ring of Chebyshev radius r, as <<dx, dy>>.
RingCells(r) ==
    {c \in (-r..r) \X (-r..r) : Abs(c[1]) = r \/ Abs(c[2]) = r}

\* The free cells of ring r around (x, y).
FreeCells(nodes, x, y, r) ==
    {c \in RingCells(r) : IsPositionFree(nodes, x + c[1] * StepX, y + c[2] * StepY)}

\* A faulty choice that takes the last free cell of a ring in the order of
\* the loops instead of the first; C14_FreePosition tells it apart.
LastCell(cells) ==
    CHOOSE c \in cells :
        \A d \in cells : c[1] > d[1] \/ (c[1] = d[1] /\ c[2] >= d[2])

\* The first cell of a set in the order of the two nested loops: dx, then dy.
FirstCell(cells) ==
    CHOOSE c \in cells :
        \A d \in cells : c[1] < d[1] \/ (c[1] = d[1] /\ c[2] <= d[2])

\* A faulty search that gives the candidate back when every ring is
\* occupied; C15_Exhausted tells it apart.
RECURSIVE RingSearchNoFallback(_, _, _, _)
RingSearchNoFallback(nodes, x, y, r) ==
    IF r > SearchRadius
    THEN <<x, y>>
    ELSE LET free == FreeCells(nodes, x, y, r)
         IN  IF free # {}
             THEN LET c == FirstCell(free)
                  IN  <<x + c[1] * StepX, y + c[2] * StepY>>
             ELSE RingSearchNoFallback(nodes, x, y, r + 1)

\* The loop over the radii of _find_free_position, from radius r on.
RECURSIVE RingSearch(_, _, _, _)
RingSearch(nodes, x, y, r) ==
    IF r > SearchRadius
    THEN <<x + FallbackRadius * StepX, y + FallbackRadius * StepY>>
    ELSE LET free == FreeCells(nodes, x, y, r)
         IN  IF free # {}
             THEN LET c == FirstCell(free)
                  IN  <<x + c[1] * StepX, y + c[2] * StepY>>
             ELSE RingSearch(nodes, x, y, r + 1)

\* _find_free_position
FindFreePosition(nodes, x, y) ==
    IF IsPositionFree(nodes, x, y) THEN <<x, y>> ELSE RingSearch(nodes, x, y, 1)

\* ------------------------------------------------------------ graph helpers
\* _node_depth: the walk up the parent map, from (current, depth, visited).
RECURSIVE NodeDepthFrom(_, _, _, _)
NodeDepthFrom(parent, current, depth, visited) ==
    LET parent_id == Get(parent, current)
    IN  IF parent_id = None \/ parent_id \in visited
        THEN depth
        ELSE NodeDepthFrom(parent, parent_id, depth + 1, visited \cup {current})

NodeDepth(parent, nid) == NodeDepthFrom(parent, nid, 0, {})

\* _default_fill_for_depth
DefaultFillForDepth(depth) == (depth % PaletteLen) + 1

\* _edges: the (parent, child) pairs in node-table order, then list order.
RECURSIVE EdgesFrom(_, _, _)
EdgesFrom(nodes, order, i) ==
    IF i > Len(order) THEN <<>>
    ELSE LET pid == order[i]
             ch  == nodes[pid].children
         IN  [k \in 1..Len(ch) |-> <<pid, ch[k]>>] \o EdgesFrom(nodes, order, i + 1)

Edges(w) == EdgesFrom(w.nodes, w.order, 1)

\* _render_edge raises KeyError at _node_center(cid) when the child is no node.
RenderRaises(w, e) == e[2] \notin DOMAIN w.nodes

\* A redraw that prunes nothing from the edge-offset memory; C19_MemoryKeys
\* tells it apart.
RedrawKeepsKeys(w) ==
    LET edges == Edges(w)
        bad   == {i \in 1..Len(edges) : RenderRaises(w, edges[i])}
        stop  == IF bad = {} THEN Len(edges) + 1
                 ELSE CHOOSE i \in bad : \A j \in bad : i <= j
        drawn == {edges[i] : i \in 1..(stop - 1)}
    IN  [w EXCEPT !.edge_offsets = w.edge_offsets \cup drawn,
                  !.exc = IF bad = {} THEN "none" ELSE "KeyError"]

\* redraw: prune the edge-offset memory to the current edges, then render the
\* edges in order; every rendered edge gets an entry.  A KeyError ends the
\* pass at the first edge whose child is missing.
Redraw(w) ==
    LET edges == Edges(w)
        bad   == {i \in 1..Len(edges) : RenderRaises(w, edges[i])}
        stop  == IF bad = {} THEN Len(edges) + 1
                 ELSE CHOOSE i \in bad : \A j \in bad : i <= j
        drawn == {edges[i] : i \in 1..(stop - 1)}
    IN  [w EXCEPT !.edge_offsets = (w.edge_offsets \cap Range(edges)) \cup drawn,
                  !.exc = IF bad = {} THEN "none" ELSE "KeyError"]

\* _set_root
SetRootTo(w, nid) ==
    [w EXCEPT !.root_id = nid, !.parent = Put(w.parent, nid, None)]

\* _select(nid), not additive
Select(w, nid) == [w EXCEPT !.selected = nid]

\* _next_auto_color: the colour handed out
NextAutoColor(w) == (w.palette_index % PaletteLen) + 1

\* The record _create_node stores for a new node.
NewNodeRecord(text, x, y, fill) ==
    [text |-> text, x |-> x, y |-> y, children |-> <<>>, fill |-> fill, custom |-> TRUE]

\* _create_node: the new node's id is the old next_id.
CreateNode(w, text, x, y) ==
    LET pos == FindFreePosition(w.nodes, x, y)
        nid == w.next_id
        w1  == [w EXCEPT !.next_id = w.next_id + 1,
                         !.palette_index = w.palette_index + 1,
                         !.nodes = Put(w.nodes, nid,
                                       NewNodeRecord(text, pos[1], pos[2], NextAutoColor(w))),
                         !.order = OrderPut(w.order, nid),
                         !.parent = Put(w.parent, nid, None)]
        w2  == Redraw(w1)
    IN  IF w2.exc # "none" THEN w2
        ELSE IF w2.root_id = None THEN SetRootTo(w2, nid) ELSE w2

\* The handlers start with no exception pending.
Begin(w) == [w EXCEPT !.exc = "none"]

\* ------------------------------------------------------------ handlers
\* new_root
NewRootHandler(w0) ==
    LET w  == Begin(w0)
        l  == FromCanvasPoint(w, CanvasCX * Unit, CanvasCY * Unit)
        w1 == CreateNode(w, "Root", l[1], l[2])
    IN  IF w1.exc # "none" THEN w1
        ELSE Select(SetRootTo(w1, w.next_id), w.next_id)

NewRoot ==
    /\ ~ws.hung
    /\ ws.next_id <= MaxId
    /\ ws' = NewRootHandler(ws)
    /\ last' = "new_root"
    /\ UNCHANGED <<declared, run, events, route, markup>>

\* on_click: a press on the empty canvas clears the selection and starts a
\* pan drag.
OnClickHandler(w0, px, py) ==
    LET w == Select(Begin(w0), None)
    IN  [w EXCEPT !.dragging = [mode |-> "pan", id |-> None, dx |-> 0, dy |-> 0,
                                start_x |-> px, start_y |-> py,
                                offset_x |-> w.offset_x, offset_y |-> w.offset_y]]

\* on_click_node: a press on a drawn node selects it and starts a node drag.
OnClickNodeHandler(w0, nid, px, py) ==
    LET w == Select(Begin(w0), nid)
        l == FromCanvasPoint(w, px, py)
    IN  IF nid \notin DOMAIN w.nodes THEN [w EXCEPT !.exc = "KeyError"]
        ELSE [w EXCEPT !.dragging = [mode |-> "node", id |-> nid,
                                     dx |-> l[1] - w.nodes[nid].x,
                                     dy |-> l[2] - w.nodes[nid].y,
                                     start_x |-> px, start_y |-> py,
                                     offset_x |-> 0, offset_y |-> 0]]

\* on_drag: a motion with the button down moves the dragged node or the view.
OnDragHandler(w0, px, py) ==
    LET w == Begin(w0)
        d == w.dragging
    IN  IF d.mode = "node"
        THEN IF d.id = None THEN w
             ELSE IF d.id \notin DOMAIN w.nodes THEN [w EXCEPT !.exc = "KeyError"]
             ELSE LET l == FromCanvasPoint(w, px, py)
                  IN  Redraw([w EXCEPT !.nodes[d.id].x = l[1] - d.dx,
                                       !.nodes[d.id].y = l[2] - d.dy])
        ELSE IF d.mode = "pan"
        THEN Redraw([w EXCEPT !.offset_x = d.offset_x + (px - d.start_x),
                              !.offset_y = d.offset_y + (py - d.start_y)])
        ELSE w

\* on_release
OnReleaseHandler(w0) == [Begin(w0) EXCEPT !.dragging = IdleDrag]

\* A click on the empty canvas: press and release with no motion between.
OnClick ==
    /\ ~ws.hung
    /\ ws' = OnReleaseHandler(OnClickHandler(ws, CanvasCX * Unit, CanvasCY * Unit))
    /\ last' = "on_click"
    /\ UNCHANGED <<declared, run, events, route, markup>>

\* A click on a drawn node, at its centre.
OnClickNode ==
    /\ ~ws.hung
    /\ \E nid \in DOMAIN ws.nodes :
          LET c == ToCanvasPoint(ws, ws.nodes[nid].x, ws.nodes[nid].y)
          IN  ws' = OnReleaseHandler(OnClickNodeHandler(ws, nid, c[1], c[2]))
    /\ last' = "on_click_node"
    /\ UNCHANGED <<declared, run, events, route, markup>>

\* _add_edge
AddEdge(w, parent_id, child_id) ==
    LET current_parent == Get(w.parent, child_id)
    IN  IF current_parent # None /\ current_parent \notin DOMAIN w.nodes
        THEN [w EXCEPT !.exc = "KeyError"]
        ELSE
        LET n1 == IF current_parent # None
                     /\ child_id \in Range(w.nodes[current_parent].children)
                  THEN [w.nodes EXCEPT ![current_parent].children =
                                           RemoveFirst(@, child_id)]
                  ELSE w.nodes
            p1 == Put(w.parent, child_id, parent_id)
        IN  IF parent_id \notin DOMAIN n1
            THEN [w EXCEPT !.nodes = n1, !.parent = p1, !.exc = "KeyError"]
            ELSE
            LET n2 == IF child_id \notin Range(n1[parent_id].children)
                      THEN [n1 EXCEPT ![parent_id].children = Append(@, child_id)]
                      ELSE n1
                w2 == [w EXCEPT !.nodes = n2, !.parent = p1]
                w3 == IF child_id = w2.root_id THEN SetRootTo(w2, parent_id) ELSE w2
            IN  IF child_id \notin DOMAIN w3.nodes
                THEN [w3 EXCEPT !.exc = "KeyError"]
                ELSE
                LET w4 == IF ~w3.nodes[child_id].custom
                          THEN [w3 EXCEPT !.nodes[child_id].fill =
                                   DefaultFillForDepth(NodeDepth(w3.parent, child_id))]
                          ELSE w3
                IN  Redraw(w4)

\* add_child
AddChildHandler(w0) ==
    LET w == Begin(w0)
        parent_id == w.selected
    IN  IF parent_id = None THEN w
        ELSE IF parent_id \notin DOMAIN w.nodes THEN [w EXCEPT !.exc = "KeyError"]
        ELSE
        LET parent_node == w.nodes[parent_id]
            base_x == IF parent_id = w.root_id /\ Len(parent_node.children) % 2 = 1
                      THEN parent_node.x - (NODE_W + HORIZ_GAP) * Unit
                      ELSE parent_node.x + (NODE_W + HORIZ_GAP) * Unit
            pos == FindFreePosition(w.nodes, base_x, parent_node.y)
            nid == w.next_id
            w1  == CreateNode(w, "New Node", pos[1], pos[2])
        IN  IF w1.exc # "none" THEN w1
            ELSE LET w2 == AddEdge(w1, parent_id, nid)
                 IN  IF w2.exc # "none" THEN w2 ELSE Select(w2, nid)

AddChild ==
    /\ ~ws.hung
    /\ ws.next_id <= MaxId
    /\ ws' = AddChildHandler(ws)
    /\ last' = "add_child"
    /\ UNCHANGED <<declared, run, events, route, markup>>

\* _collect_subtree: the preorder walk, as <<exception, collected>>.  A child
\* that is no node raises KeyError; a walk deeper than the number of nodes is
\* inside a cycle and ends in RecursionError.
RECURSIVE Dfs(_, _, _, _)
RECURSIVE DfsChildren(_, _, _, _, _)
Dfs(nodes, node_id, level, acc) ==
    IF acc[1] # "none" THEN acc
    ELSE IF level > Cardinality(DOMAIN nodes) THEN <<"RecursionError", acc[2]>>
    ELSE IF node_id \notin DOMAIN nodes THEN <<"KeyError", Append(acc[2], node_id)>>
    ELSE DfsChildren(nodes, nodes[node_id].children, 1, level,
                     <<"none", Append(acc[2], node_id)>>)
DfsChildren(nodes, children, i, level, acc) ==
    IF acc[1] # "none" \/ i > Len(children) THEN acc
    ELSE DfsChildren(nodes, children, i + 1, level,
                     Dfs(nodes, children[i], level + 1, acc))

CollectSubtree(nodes, nid) == Dfs(nodes, nid, 0, <<"none", <<>>>>)

\* One round of the loop of delete_selected, for the node cid.
DeleteOne(w, cid) ==
    IF cid \notin DOMAIN w.nodes THEN [w EXCEPT !.exc = "KeyError"]
    ELSE
    LET ch == w.nodes[cid].children
        p1 == [k \in DOMAIN w.parent \cup Range(ch) |->
                  IF k \in Range(ch) THEN None ELSE w.parent[k]]
        parent_id == Get(p1, cid)
    IN  IF parent_id # None /\ parent_id \notin DOMAIN w.nodes
        THEN [w EXCEPT !.parent = p1, !.exc = "KeyError"]
        ELSE
        LET n1 == IF parent_id # None /\ cid \in Range(w.nodes[parent_id].children)
                  THEN [w.nodes EXCEPT ![parent_id].children = RemoveFirst(@, cid)]
                  ELSE w.nodes
        IN  [w EXCEPT !.parent = Pop(p1, cid),
                      !.nodes = Pop(n1, cid),
                      !.order = OrderPop(w.order, cid)]

\* The loop of delete_selected over the collected ids, from position i on.
RECURSIVE DeleteLoop(_, _, _)
DeleteLoop(w, ids, i) ==
    IF w.exc # "none" \/ i > Len(ids) THEN w
    ELSE DeleteLoop(DeleteOne(w, ids[i]), ids, i + 1)

\* delete_selected; yes is the answer to the confirmation dialog.
DeleteSelectedHandler(w0, yes) ==
    LET w == Begin(w0)
        nid == w.selected
    IN  IF nid = None THEN w
        ELSE
        LET sub == CollectSubtree(w.nodes, nid)
        IN  IF sub[1] # "none" THEN [w EXCEPT !.exc = sub[1]]
            ELSE IF Len(sub[2]) > 1 /\ ~yes THEN w
            ELSE
            LET w1 == DeleteLoop(w, sub[2], 1)
            IN  IF w1.exc # "none" THEN w1
                ELSE
                LET w2 == IF w1.root_id \in Range(sub[2])
                          THEN [w1 EXCEPT !.root_id =
                                   IF Len(w1.order) > 0 THEN w1.order[1] ELSE None]
                          ELSE w1
                IN  Redraw(Select(w2, None))

DeleteSelected ==
    /\ ~ws.hung
    /\ \E yes \in BOOLEAN : ws' = DeleteSelectedHandler(ws, yes)
    /\ last' = "delete_selected"
    /\ UNCHANGED <<declared, run, events, route, markup>>

\* set_root
SetRootHandler(w0) ==
    LET w == Begin(w0)
        nid == w.selected
    IN  IF nid = None THEN w
        ELSE LET w1 == SetRootTo(w, nid)
             IN  IF nid \notin DOMAIN w1.nodes THEN [w1 EXCEPT !.exc = "KeyError"] ELSE w1

SetRoot ==
    /\ ~ws.hung
    /\ ws' = SetRootHandler(ws)
    /\ last' = "set_root"
    /\ UNCHANGED <<declared, run, events, route, markup>>

\* on_double_click on the empty canvas, at the canvas point (px, py)
OnDoubleClickHandler(w0, px, py) ==
    LET w == Begin(w0)
    IN  IF DOMAIN w.nodes = {}
        THEN LET l  == FromCanvasPoint(w, px, py)
                 w1 == CreateNode(w, "Root", l[1], l[2])
             IN  IF w1.exc # "none" THEN w1
                 ELSE Select(SetRootTo(w1, w.next_id), w.next_id)
        ELSE LET target == IF w.selected # None THEN w.selected ELSE w.root_id
             IN  IF target # None THEN AddChildHandler(Select(w, target)) ELSE w

\* The canvas points a double click is tried at.
ClickPoints == {<<CanvasCX * Unit, CanvasCY * Unit>>, <<(CanvasCX + 100) * Unit, CanvasCY * Unit>>}

OnDoubleClick ==
    /\ ~ws.hung
    /\ ws.next_id <= MaxId
    /\ \E p \in ClickPoints : ws' = OnDoubleClickHandler(ws, p[1], p[2])
    /\ last' = "on_double_click"
    /\ UNCHANGED <<declared, run, events, route, markup>>

\* ------------------------------------------------------------ documents
\* str(nid): the decimal digits of an id, the key of a node in a document.
RECURSIVE IdToStr(_)
IdToStr(n) == IF n < 10 THEN <<n>> ELSE IdToStr(n \div 10) \o <<n % 10>>

\* int(nid_str)
RECURSIVE StrToId(_)
StrToId(str) ==
    IF Len(str) = 0 THEN 0
    ELSE 10 * StrToId(SubSeq(str, 1, Len(str) - 1)) + str[Len(str)]

\* The entry save writes for a node: w and h are not persisted.
SavedNode(nd) ==
    [text |-> nd.text, x |-> nd.x, y |-> nd.y, children |-> nd.children,
     fill |-> nd.fill, custom |-> nd.custom]

\* save: the document written for the workspace (a dict in node-table order).
SaveDoc(w) ==
    [root    |-> w.root_id,
     next_id |-> w.next_id,
     keys    |-> [i \in 1..Len(w.order) |-> IdToStr(w.order[i])],
     nodes   |-> [k \in {IdToStr(n) : n \in DOMAIN w.nodes} |->
                     SavedNode(w.nodes[StrToId(k)])]]

\* The first loop of _load_data_into_current_workspace: the node table.
LoadedNodes(doc) ==
    [n \in {StrToId(k) : k \in DOMAIN doc.nodes} |->
        LET k == CHOOSE j \in DOMAIN doc.nodes :
                    /\ StrToId(j) = n
                    /\ \A i \in 1..Len(doc.keys) :
                          StrToId(doc.keys[i]) = n =>
                             \E i2 \in i..Len(doc.keys) : doc.keys[i2] = j
        IN  SavedNode(doc.nodes[k])]

RECURSIVE LoadedOrderFrom(_, _, _)
LoadedOrderFrom(keys, i, acc) ==
    IF i > Len(keys) THEN acc
    ELSE LoadedOrderFrom(keys, i + 1, OrderPut(acc, StrToId(keys[i])))

LoadedOrder(doc) == LoadedOrderFrom(doc.keys, 1, <<>>)

\* The second loop: the parent map, rebuilt from the children lists; a later
\* edge overwrites an earlier one.
RECURSIVE ParentFromEdges(_, _, _)
ParentFromEdges(edges, i, parent) ==
    IF i > Len(edges) THEN parent
    ELSE ParentFromEdges(edges, i + 1, Put(parent, edges[i][2], edges[i][1]))

LoadedParent(nodes, order) ==
    ParentFromEdges(EdgesFrom(nodes, order, 1), 1, [n \in DOMAIN nodes |-> None])

\* max_id: the largest loaded id, starting from 0
MaxLoadedId(nodes) ==
    IF DOMAIN nodes = {} THEN 0
    ELSE CHOOSE m \in DOMAIN nodes : \A n \in DOMAIN nodes : n <= m

\* A faulty next_id after load that trusts the declared one and takes no
\* maximum with the loaded ids; C5_NextIdAbove tells it apart.
DeclaredNextIdOnly(doc, nodes) ==
    IF doc.next_id = None THEN MaxLoadedId(nodes) + 1 ELSE doc.next_id

\* next_id after load; a document without next_id declares None.
LoadedNextId(doc, nodes) ==
    LET fallback_next == MaxLoadedId(nodes) + 1
        provided_next == IF doc.next_id = None THEN fallback_next ELSE doc.next_id
    IN  Max2(provided_next, fallback_next)

\* _draw_node, as far as it changes the node: a missing fill becomes the
\* colour of the node's depth.
DrawNode(nd, parent, nid) ==
    IF nd.fill = None
    THEN [nd EXCEPT !.fill = DefaultFillForDepth(NodeDepth(parent, nid))]
    ELSE nd

\* A faulty root after load that ignores the declared root and takes the
\* first loaded node; C7_RoundTrip tells it apart.
FirstNodeAsRoot(doc, nodes, order) ==
    IF Len(order) > 0 THEN order[1] ELSE None

\* The root after load: the declared one if it is a loaded node, else the first.
LoadedRoot(doc, nodes, order) ==
    IF doc.root \in DOMAIN nodes THEN doc.root
    ELSE IF Len(order) > 0 THEN order[1] ELSE None

\* _load_data_into_current_workspace, into the fresh workspace load() made.
LoadHandler(doc) ==
    LET nodes  == LoadedNodes(doc)
        order  == LoadedOrder(doc)
        parent == LoadedParent(nodes, order)
        drawn  == [n \in DOMAIN nodes |-> DrawNode(nodes[n], parent, n)]
        w1 == [EmptyWorkspace EXCEPT
                  !.nodes = drawn, !.order = order, !.parent = parent,
                  !.root_id = LoadedRoot(doc, nodes, order),
                  !.next_id = LoadedNextId(doc, nodes),
                  !.palette_index = Cardinality(DOMAIN nodes)]
        w2 == Redraw(w1)
    IN  IF w2.exc # "none" THEN w2 ELSE Select(w2, w2.root_id)

\* The documents tried: nodes 1..MaxDocId in any order, children lists over
\* the ids 1..MaxDocId+1 (the last is no node of the document) with at most
\* MaxDocEdges entries in all, any declared root or none, a declared next_id
\* or none, and nodes with no fill or with a custom colour.
DocIdSets == SUBSET (1..MaxDocId)

DocChildSeqs == UNION {[1..k -> 1..(MaxDocId + 1)] : k \in 0..MaxDocEdges}

RECURSIVE SumLen(_, _)
SumLen(f, S) ==
    IF S = {} THEN 0
    ELSE LET n == CHOOSE m \in S : TRUE IN Len(f[n]) + SumLen(f, S \ {n})

DocChildMaps(ids) ==
    {f \in [ids -> DocChildSeqs] : SumLen(f, ids) <= MaxDocEdges}

Perms(ids) ==
    {o \in [1..Cardinality(ids) -> ids] : \A i, j \in 1..Cardinality(ids) : i # j => o[i] # o[j]}

DocNode(n, children, coloured) ==
    [text |-> "Doc", x |-> 100 * n * Unit, y |-> 50 * n * Unit, children |-> children,
     fill |-> IF coloured THEN ForeignColor ELSE None, custom |-> coloured]

MakeDoc(o, ch, r, nx, coloured) ==
    [root |-> r, next_id |-> nx,
     keys |-> [i \in 1..Len(o) |-> IdToStr(o[i])],
     nodes |-> [k \in {IdToStr(o[i]) : i \in 1..Len(o)} |->
                   DocNode(StrToId(k), ch[StrToId(k)], coloured)]]

\* The next_id a document declares: none, or one that lies below, at or above
\* 1 + the largest id, depending on the nodes of the document.
DeclaredNextIds == {None, MaxDocId}

DocsOver(ids) ==
    {MakeDoc(o, ch, r, nx, coloured) :
        o \in Perms(ids), ch \in DocChildMaps(ids), r \in 0..(MaxDocId + 1),
        nx \in DeclaredNextIds, coloured \in BOOLEAN}

\* load: always into a workspace load() has just created.
Load ==
    /\ ws = EmptyWorkspace
    /\ \E ids \in DocIdSets : \E doc \in DocsOver(ids) :
          ws' = LoadHandler(doc) /\ declared' = doc.next_id
    /\ last' = "load"
    /\ UNCHANGED <<run, events, route, markup>>

\* ------------------------------------------------------------ layout engine
\* A faulty first loop that takes the parity of the 1-based position, so the
\* first child goes right; C11_Directions tells it apart.
RECURSIVE DirectRootChildrenOneBased(_, _, _)
DirectRootChildrenOneBased(children, i, directions) ==
    IF i > Len(children) THEN directions
    ELSE DirectRootChildrenOneBased(children, i + 1,
             Put(directions, children[i], IF i % 2 = 0 THEN -1 ELSE 1))

\* The first loop of _assign_directions: the root's children alternate
\* left (-1) and right (+1) by index, a later entry overwriting an earlier.
RECURSIVE DirectRootChildren(_, _, _)
DirectRootChildren(children, i, directions) ==
    IF i > Len(children) THEN directions
    ELSE DirectRootChildren(children, i + 1,
             Put(directions, children[i], IF (i - 1) % 2 = 0 THEN -1 ELSE 1))

\* The inner loop of the walk: every child of nid takes nid's direction.
RECURSIVE DirectChildren(_, _, _, _)
DirectChildren(children, i, direction, directions) ==
    IF i > Len(children) THEN directions
    ELSE DirectChildren(children, i + 1, direction, Put(directions, children[i], direction))

\* The state of the walk of _assign_directions before its while loop.
DirStart(nodes, root_id) ==
    IF root_id \notin DOMAIN nodes
    THEN [exc |-> "KeyError", queue |-> <<>>, directions |-> <<>>]
    ELSE [exc |-> "none", queue |-> nodes[root_id].children,
          directions |-> DirectRootChildren(nodes[root_id].children, 1,
                                            Put(<<>>, root_id, 0))]

\* One round of the while loop: pop the head of the queue, direct its
\* children, append them.  There is no visited set.
DirStep(nodes, st) ==
    LET nid == Head(st.queue)
    IN  IF nid \notin DOMAIN nodes
        THEN [st EXCEPT !.exc = "KeyError", !.queue = Tail(st.queue)]
        ELSE LET direction == IF nid \in DOMAIN st.directions THEN st.directions[nid] ELSE 1
                 children  == nodes[nid].children
             IN  [st EXCEPT !.queue = Tail(st.queue) \o children,
                            !.directions = DirectChildren(children, 1, direction, @)]

\* The ids the walk from the ids of S ever puts in its queue.
RECURSIVE Closure(_, _)
Closure(nodes, S) ==
    LET T == S \cup UNION {Range(nodes[n].children) : n \in S \cap DOMAIN nodes}
    IN  IF T = S THEN S ELSE Closure(nodes, T)

\* The ids queued by a walk that starts with the children of root_id.
Queued(nodes, root_id) == Closure(nodes, Range(nodes[root_id].children))

\* A queued node that is its own descendant: the queue never runs empty.
OnCycle(nodes, root_id) ==
    \E n \in Queued(nodes, root_id) \cap DOMAIN nodes :
        n \in Closure(nodes, Range(nodes[n].children))

\* The while loop of _assign_directions, run to its end.  The queue is
\* first-in first-out, so an id that is no node is popped after finitely
\* many rounds and raises KeyError; without one, a cycle among the queued
\* nodes keeps the queue filled for ever: "hung".
RECURSIVE DirLoop(_, _)
DirLoop(nodes, st) ==
    IF st.exc # "none" \/ st.queue = <<>> THEN st
    ELSE DirLoop(nodes, DirStep(nodes, st))

DirRun(nodes, root_id) ==
    LET st == DirStart(nodes, root_id)
    IN  IF st.exc # "none" THEN st
        ELSE IF Queued(nodes, root_id) \subseteq DOMAIN nodes /\ OnCycle(nodes, root_id)
        THEN [st EXCEPT !.exc = "hung"]
        ELSE DirLoop(nodes, st)

\* The last loop of _assign_directions: the nodes not reached go right.
DirDefaults(nodes, root_id, directions) ==
    [n \in DOMAIN directions \cup DOMAIN nodes |->
        IF n \in DOMAIN directions THEN directions[n]
        ELSE IF n # root_id THEN 1 ELSE 0]

\* _assign_directions, as [exc, directions]
AssignDirections(nodes, root_id) ==
    LET st == DirRun(nodes, root_id)
    IN  [exc |-> st.exc,
         directions |-> IF st.exc = "none"
                        THEN DirDefaults(nodes, root_id, st.directions) ELSE <<>>]

\* The depths dict: its keys in insertion order and its values.
DepthPut(dep, k, v) == [keys |-> OrderPut(dep.keys, k), val |-> Put(dep.val, k, v)]

\* The inner loop of _compute_depths: depths[child] = depths[nid] + 1.
RECURSIVE DepthChildren(_, _, _, _)
DepthChildren(children, i, nid, dep) ==
    IF i > Len(children) THEN dep
    ELSE DepthChildren(children, i + 1, nid, DepthPut(dep, children[i], dep.val[nid] + 1))

DepthStart(root_id) ==
    [exc |-> "none", stack |-> <<root_id>>,
     dep |-> [keys |-> <<root_id>>, val |-> Put(<<>>, root_id, 0)]]

\* One round of the while loop of _compute_depths: pop the top of the stack.
DepthStep(nodes, st) ==
    LET nid  == st.stack[Len(st.stack)]
        rest == SubSeq(st.stack, 1, Len(st.stack) - 1)
    IN  IF nid \notin DOMAIN nodes
        THEN [st EXCEPT !.exc = "KeyError", !.stack = rest]
        ELSE LET children == nodes[nid].children
             IN  [st EXCEPT !.stack = rest \o children,
                            !.dep = DepthChildren(children, 1, nid, @)]

\* The while loop of _compute_depths, run to its end: it is reached only
\* after _assign_directions has returned, so the nodes under the root exist
\* and lie on no cycle.
RECURSIVE DepthLoop(_, _)
DepthLoop(nodes, st) ==
    IF st.exc # "none" \/ st.stack = <<>> THEN st
    ELSE DepthLoop(nodes, DepthStep(nodes, st))

\* The last loop of _compute_depths, over the node table from position i: a
\* node the walk did not reach gets its parent's depth + 1, or 0.
RECURSIVE DepthFallback(_, _, _, _)
DepthFallback(order, parent, i, dep) ==
    IF i > Len(order) THEN dep
    ELSE LET nid == order[i]
             parent_id == Get(parent, nid)
             d == IF parent_id = None THEN 0
                  ELSE (IF parent_id \in DOMAIN dep.val THEN dep.val[parent_id] ELSE 0) + 1
         IN  DepthFallback(order, parent, i + 1,
                           IF nid \in DOMAIN dep.val THEN dep ELSE DepthPut(dep, nid, d))

\* _compute_depths, as [exc, dep]
ComputeDepths(w, root_id) ==
    LET st == DepthLoop(w.nodes, DepthStart(root_id))
    IN  [exc |-> st.exc,
         dep |-> IF st.exc = "none" THEN DepthFallback(w.order, w.parent, 1, st.dep)
                 ELSE st.dep]

\* sorted(list of numbers)
RECURSIVE SortNums(_)
SortNums(seq) ==
    IF Len(seq) <= 1 THEN seq
    ELSE LET m == CHOOSE i \in 1..Len(seq) : \A j \in 1..Len(seq) : seq[i] <= seq[j]
         IN  <<seq[m]>> \o SortNums(SubSeq(seq, 1, m - 1) \o SubSeq(seq, m + 1, Len(seq)))

\* The two while loops of _symmetrical_positions: -offset, offset, ...
RECURSIVE SymPairs(_, _, _)
SymPairs(positions, offset, count) ==
    IF Len(positions) >= count THEN positions
    ELSE SymPairs(positions \o <<-offset, offset>>, offset + Unit, count)

\* _symmetrical_positions
SymmetricalPositions(count) ==
    IF count <= 0 THEN <<>>
    ELSE LET built == IF count % 2 = 0 THEN SymPairs(<<>>, Unit \div 2, count)
                      ELSE SymPairs(<<0>>, Unit, count)
         IN  SortNums(SubSeq(built, 1, count))

\* The entry (parent_slot, ordinal, nid, parent_id) of a node of a level.
SlotEntry(w, slots, nid) ==
    LET parent_id == Get(w.parent, nid)
    IN  [pslot |-> IF parent_id \in DOMAIN slots THEN slots[parent_id] ELSE 0,
         ord   |-> IF parent_id = None THEN 0
                   ELSE Max2(IndexOf(w.nodes[parent_id].children, nid) - 1, 0),
         nid   |-> nid,
         pid   |-> parent_id]

\* sorted(entries, key=(parent_slot, ordinal)): a stable sort.
EntryLe(a, b) == a.pslot < b.pslot \/ (a.pslot = b.pslot /\ a.ord <= b.ord)

RECURSIVE SortEntries(_, _, _)
SortEntries(entries, i, sorted) ==
    IF i > Len(entries) THEN sorted
    ELSE LET e == entries[i]
             k == Cardinality({j \in 1..Len(sorted) : EntryLe(sorted[j], e)})
         IN  SortEntries(entries, i + 1,
                         SubSeq(sorted, 1, k) \o <<e>> \o SubSeq(sorted, k + 1, Len(sorted)))

\* A faulty blend that leaves the parent's slot out; C22_Slots tells it apart.
BlendSlotBaseOnly(base, parent_slot, parent_id, root_id) == base

\* slot = base * (1 - weight) + parent_slot * weight, weight 0.25 or 0
BlendSlot(base, parent_slot, parent_id, root_id) ==
    IF parent_id = None \/ parent_id = root_id THEN base
    ELSE (3 * base + parent_slot) \div 4

\* assign(entries, positions), from the idx-th ordered entry on
RECURSIVE AssignSlots(_, _, _, _, _)
AssignSlots(ordered, positions, idx, root_id, slots) ==
    IF idx > Len(ordered) THEN slots
    ELSE LET e    == ordered[idx]
             base == IF Len(positions) = 0 THEN 0
                     ELSE positions[IF idx < Len(positions) THEN idx ELSE Len(positions)]
         IN  AssignSlots(ordered, positions, idx + 1, root_id,
                         Put(slots, e.nid, BlendSlot(base, e.pslot, e.pid, root_id)))

Assign(entries, positions, root_id, slots) ==
    AssignSlots(SortEntries(entries, 1, <<>>), positions, 1, root_id, slots)

\* The nodes of a depth, in the order of the depths dict.
LevelNodes(dep, depth) == SelectSeq(dep.keys, LAMBDA n : dep.val[n] = depth)

\* The loop over the depths of _compute_vertical_slots, from depth on, as
\* [exc, slots].  The ordinal lookup raises KeyError for a parent that is no
\* node.
RECURSIVE SlotLevels(_, _, _, _, _, _, _)
SlotLevels(w, root_id, directions, dep, depth, max_depth, slots) ==
    IF depth > max_depth THEN [exc |-> "none", slots |-> slots]
    ELSE
    LET level == LevelNodes(dep, depth)
    IN  IF \E i \in 1..Len(level) :
              Get(w.parent, level[i]) # None /\ Get(w.parent, level[i]) \notin DOMAIN w.nodes
        THEN [exc |-> "KeyError", slots |-> slots]
        ELSE
        LET entries == [i \in 1..Len(level) |-> SlotEntry(w, slots, level[i])]
            dirOf(e) == IF e.nid \in DOMAIN directions THEN directions[e.nid]
                        ELSE IF e.pid \in DOMAIN directions THEN directions[e.pid] ELSE 0
            left   == SelectSeq(entries, LAMBDA e : dirOf(e) < 0)
            right  == SelectSeq(entries, LAMBDA e : dirOf(e) > 0)
            centre == SelectSeq(entries, LAMBDA e : dirOf(e) = 0)
            side_positions   == SymmetricalPositions(Max2(Len(left), Len(right)))
            centre_positions == SymmetricalPositions(Len(centre))
            s1 == Assign(left, side_positions, root_id, slots)
            s2 == Assign(right, side_positions, root_id, s1)
            s3 == Assign(centre, centre_positions, root_id, s2)
        IN  SlotLevels(w, root_id, directions, dep, depth + 1, max_depth, s3)

MaxDepth(dep) ==
    LET ds == {dep.val[n] : n \in DOMAIN dep.val}
    IN  IF ds = {} THEN 0 ELSE CHOOSE m \in ds : \A d \in ds : d <= m

\* _compute_vertical_slots, as [exc, slots]
ComputeVerticalSlots(w, root_id, directions, dep) ==
    LET r == SlotLevels(w, root_id, directions, dep, 1, MaxDepth(dep), Put(<<>>, root_id, 0))
    IN  [exc |-> r.exc,
         slots |-> [n \in DOMAIN r.slots \cup DOMAIN w.nodes |->
                       IF n \in DOMAIN r.slots THEN r.slots[n] ELSE 0]]

\* A faulty x that puts every node to the right of the centre, whatever its
\* direction; C13_Placement tells it apart.
LayoutXRightOnly(base_x, direction, depth) ==
    base_x + depth * (NODE_W + HORIZ_GAP) * Unit

\* The x of a node of the given direction and depth.
LayoutX(base_x, direction, depth) ==
    IF direction < 0 THEN base_x - depth * (NODE_W + HORIZ_GAP) * Unit
    ELSE IF direction > 0 THEN base_x + depth * (NODE_W + HORIZ_GAP) * Unit
    ELSE base_x

\* A faulty y that moves the node from where it was instead of placing it
\* from the viewport centre; C10_Idempotent tells it apart.
LayoutYRelative(nd, base_y, offset) == nd.y + offset * (NODE_H + VERT_GAP)

\* The y of a node: nd is the node as it was, offset its slot less the root's.
LayoutY(nd, base_y, offset) == base_y + offset * (NODE_H + VERT_GAP)

\* The loop of auto_layout over the nodes: position and, unless custom, fill.
PlaceNode(nd, base_x, base_y, direction, depth, offset) ==
    [nd EXCEPT !.x = LayoutX(base_x, direction, depth),
               !.y = LayoutY(nd, base_y, offset),
               !.fill = IF nd.custom THEN @ ELSE DefaultFillForDepth(depth)]

\* auto_layout
AutoLayoutHandler(w0) ==
    LET w == Begin(w0)
    IN  IF DOMAIN w.nodes = {} THEN w
        ELSE
        LET root_id == IF w.root_id # None THEN w.root_id ELSE w.order[1]
            base    == FromCanvasPoint(w, CanvasCX * Unit, CanvasCY * Unit)
            base_x  == base[1]
            base_y  == base[2]
            dirs    == AssignDirections(w.nodes, root_id)
        IN  IF dirs.exc = "hung" THEN [w EXCEPT !.hung = TRUE]
            ELSE IF dirs.exc # "none" THEN [w EXCEPT !.exc = dirs.exc]
            ELSE
            LET deps == ComputeDepths(w, root_id)
            IN  IF deps.exc # "none" THEN [w EXCEPT !.exc = deps.exc]
                ELSE
                LET sl == ComputeVerticalSlots(w, root_id, dirs.directions, deps.dep)
                IN  IF sl.exc # "none" THEN [w EXCEPT !.exc = sl.exc]
                    ELSE
                    LET root_slot == sl.slots[root_id]
                        placed == [n \in DOMAIN w.nodes |->
                                     PlaceNode(w.nodes[n], base_x, base_y,
                                               dirs.directions[n], deps.dep.val[n],
                                               sl.slots[n] - root_slot)]
                    IN  Redraw([w EXCEPT !.nodes = placed])

AutoLayout ==
    /\ ~ws.hung
    /\ ws' = AutoLayoutHandler(ws)
    /\ last' = "auto_layout"
    /\ UNCHANGED <<declared, run, events, route, markup>>

Next ==
    \/ NewRoot
    \/ AddChild
    \/ DeleteSelected
    \/ SetRoot
    \/ OnClick
    \/ OnClickNode
    \/ OnDoubleClick
    \/ Load
    \/ AutoLayout

Spec == Init /\ [][Next]_vars

\* The editing handlers alone: a workspace that never loads a document.
EditNext ==
    \/ NewRoot
    \/ AddChild
    \/ DeleteSelected
    \/ SetRoot
    \/ OnClick
    \/ OnClickNode
    \/ OnDoubleClick
    \/ AutoLayout

EditSpec == Init /\ [][EditNext]_vars

\* ------------------------------------------------------------ the node API
\* The specification ApiSpec drives the two helpers the handlers are built on,
\* _create_node (at the canvas centre) and _add_edge, with any existing nodes
\* as the arguments of _add_edge: add-edge as an operation of its own.
ApiCreateNode ==
    /\ ws.next_id <= MaxId
    /\ ws' = CreateNode(Begin(ws), "New Node", CanvasCX * Unit, CanvasCY * Unit)
    /\ last' = "create_node"
    /\ UNCHANGED <<declared, run, events, route, markup>>

ApiAddEdge ==
    /\ \E p, c \in DOMAIN ws.nodes : ws' = AddEdge(Begin(ws), p, c)
    /\ last' = "add_edge"
    /\ UNCHANGED <<declared, run, events, route, markup>>

ApiNext ==
    \/ ApiCreateNode
    \/ ApiAddEdge

ApiSpec == Init /\ [][ApiNext]_vars

\* ------------------------------------------------------------ auto layout, round by round
\* The specification LayoutSpec loads a document and then follows one call
\* of auto_layout through the while loops of _assign_directions and
\* _compute_depths, one round of a loop per step.  A queue or stack longer
\* than MaxQueue ends the observation of the run: run.pc = "overflow".
\* run.rounds is the number of rounds taken, modulo 2: a round that leaves
\* the queue as it found it is still a step of the program.
MaxQueue == 4

\* auto_layout up to the while loop of _assign_directions.
LayoutStart ==
    /\ run.pc = "idle"
    /\ last = "load"
    /\ ws' = Begin(ws)
    /\ last' = "auto_layout"
    /\ IF DOMAIN ws.nodes = {}
       THEN run' = [run EXCEPT !.pc = "done"]
       ELSE LET root_id == IF ws.root_id # None THEN ws.root_id ELSE ws.order[1]
                st == DirStart(ws.nodes, root_id)
            IN  run' = [run EXCEPT !.pc = IF st.exc # "none" THEN "raised" ELSE "directions",
                                   !.root_id = root_id,
                                   !.dir = st]
    /\ UNCHANGED <<declared, events, route, markup>>

\* The pc after a round of a loop that left the state st with the pending
\* ids todo.
AfterRound(st, todo, pc) ==
    IF st.exc # "none" THEN "raised"
    ELSE IF Len(todo) > MaxQueue THEN "overflow"
    ELSE pc

\* One round of "while queue:" in _assign_directions.
DirRound ==
    /\ run.pc = "directions"
    /\ run.dir.queue # <<>>
    /\ LET st == DirStep(ws.nodes, run.dir)
       IN  run' = [run EXCEPT !.dir = st, !.pc = AfterRound(st, st.queue, "directions"),
                              !.rounds = (@ + 1) % 2]
    /\ UNCHANGED <<ws, last, declared, events, route, markup>>

\* The queue is empty: _assign_directions returns and _compute_depths begins.
DirEnd ==
    /\ run.pc = "directions"
    /\ run.dir.queue = <<>>
    /\ run' = [run EXCEPT !.pc = "depths", !.dep = DepthStart(run.root_id)]
    /\ UNCHANGED <<ws, last, declared, events, route, markup>>

\* One round of "while stack:" in _compute_depths.
DepthRound ==
    /\ run.pc = "depths"
    /\ run.dep.stack # <<>>
    /\ LET st == DepthStep(ws.nodes, run.dep)
       IN  run' = [run EXCEPT !.dep = st, !.pc = AfterRound(st, st.stack, "depths"),
                              !.rounds = (@ + 1) % 2]
    /\ UNCHANGED <<ws, last, declared, events, route, markup>>

\* The stack is empty: the rest of auto_layout runs to its end.
DepthEnd ==
    /\ run.pc = "depths"
    /\ run.dep.stack = <<>>
    /\ ws' = AutoLayoutHandler(ws)
    /\ run' = [run EXCEPT !.pc = IF ws'.exc # "none" THEN "raised" ELSE "done"]
    /\ UNCHANGED <<last, declared, events, route, markup>>

LayoutNext ==
    \/ Load
    \/ LayoutStart
    \/ DirRound
    \/ DirEnd
    \/ DepthRound
    \/ DepthEnd

\* Once auto_layout is called the interpreter runs it: a round that can be
\* taken is taken.
LayoutSpec ==
    /\ Init
    /\ [][LayoutNext]_vars
    /\ WF_vars(LayoutStart)
    /\ WF_vars(DirRound)
    /\ WF_vars(DirEnd)
    /\ WF_vars(DepthRound)
    /\ WF_vars(DepthEnd)

\* The round-by-round run and the handler run to its end agree: a run that
\* reaches its end is one the handler finishes, with the same directions.
LayoutRunsAgree ==
    /\ run.pc = "depths" =>
          /\ DirRun(ws.nodes, run.root_id).exc = "none"
          /\ DirRun(ws.nodes, run.root_id).directions = run.dir.directions
    /\ run.pc = "done" => ~ws.hung
    /\ run.pc = "overflow" => AutoLayoutHandler(ws).hung

\* ------------------------------------------------------------ layout of loaded trees
\* The specification TreeSpec loads a document of up to MaxTreeId nodes whose
\* children lists are given by up to MaxTreeEdges (parent, child) pairs over
\* its ids, in any order and with repetitions, and applies auto_layout to it.
MaxTreeId == 4
MaxTreeEdges == 3

\* The children list the pairs es give the node p: the children in order.
TreeChildren(es, p) ==
    LET own == SelectSeq(es, LAMBDA e : e[1] = p)
    IN  [i \in 1..Len(own) |-> own[i][2]]

\* The document with the nodes 1..n, the edges es and the root r.
TreeDoc(n, es, r) ==
    MakeDoc([i \in 1..n |-> i], [p \in 1..n |-> TreeChildren(es, p)], r, None, FALSE)

TreeDocs(n) ==
    {TreeDoc(n, es, r) :
        es \in UNION {[1..k -> (1..n) \X (1..n)] : k \in 0..MaxTreeEdges},
        r \in 1..n}

\* load, of a document of this family.
LoadTree ==
    /\ ws = EmptyWorkspace
    /\ \E n \in 1..MaxTreeId : \E doc \in TreeDocs(n) : ws' = LoadHandler(doc)
    /\ declared' = None
    /\ last' = "load"
    /\ UNCHANGED <<run, events, route, markup>>

TreeNext ==
    \/ LoadTree
    \/ AutoLayout

TreeSpec == Init /\ [][TreeNext]_vars

\* ------------------------------------------------------------ the free-position finder
\* The specification FinderSpec starts from a loaded document whose nodes
\* stand on a lattice around the canvas centre, one node for every two grid steps in
\* each direction, so that a node covers a block of two by two cells of the
\* search grid, and then creates a node with _create_node at a candidate
\* point.  The lattice has up to LatticeSide columns and rows; with all of
\* them every cell the search examines is occupied.  One more node may stand
\* on the fallback point.
LatticeSide == 9

\* The node of column i and row j of the lattice, counted from 0.
LatticeNode(i, j) ==
    [text |-> "Doc",
     x |-> CanvasCX * Unit + StepX \div 2 + 2 * StepX * (i - SearchRadius \div 2),
     y |-> CanvasCY * Unit + StepY \div 2 + 2 * StepY * (j - SearchRadius \div 2),
     children |-> <<>>, fill |-> ForeignColor, custom |-> TRUE]

\* The node on the fallback point of the canvas centre.
FallbackNode ==
    [text |-> "Doc",
     x |-> CanvasCX * Unit + FallbackRadius * StepX,
     y |-> CanvasCY * Unit + FallbackRadius * StepY,
     children |-> <<>>, fill |-> ForeignColor, custom |-> TRUE]

\* The workspace load leaves for the document of a lattice of cols columns
\* and rows rows, its nodes numbered row by row, with or without the node on
\* the fallback point: the first node is the root and is selected.
LatticeWorkspace(cols, rows, extra) ==
    LET count == cols * rows
        total == IF extra THEN count + 1 ELSE count
        node(k) == IF k > count THEN FallbackNode
                   ELSE LatticeNode((k - 1) % cols, (k - 1) \div cols)
    IN  [EmptyWorkspace EXCEPT
            !.nodes = [k \in 1..total |-> node(k)],
            !.order = [k \in 1..total |-> k],
            !.parent = [k \in 1..total |-> None],
            !.root_id = IF total > 0 THEN 1 ELSE None,
            !.selected = IF total > 0 THEN 1 ELSE None,
            !.next_id = total + 1,
            !.palette_index = total]

\* A lattice document has been loaded.
FinderInit ==
    /\ \E cols, rows \in 0..LatticeSide : \E extra \in BOOLEAN :
          ws = LatticeWorkspace(cols, rows, extra)
    /\ last = "load"
    /\ declared = None
    /\ run = IdleRun
    /\ events = 0
    /\ route = NoRoute
    /\ markup = NoMarkup

\* The candidate points tried: the canvas centre, a point beside it that is
\* no multiple of the grid step away, and points one or more cells away.
FinderPoints ==
    {<<CanvasCX * Unit + a[1], CanvasCY * Unit + a[2]>> :
        a \in {<<0, 0>>, <<30 * Unit, 20 * Unit>>, <<StepX, 0>>, <<-2 * StepX, 3 * StepY>>}}

\* _create_node at a candidate point, once per loaded document.
CreateAt ==
    /\ last = "load"
    /\ \E p \in FinderPoints : ws' = CreateNode(Begin(ws), "New Node", p[1], p[2])
    /\ last' = "create_node"
    /\ UNCHANGED <<declared, run, events, route, markup>>

FinderNext == CreateAt

FinderSpec == FinderInit /\ [][FinderNext]_vars

\* ------------------------------------------------------------ view transforms
\* max(ZOOM_MIN, min(ZOOM_MAX, scale)) with the lower limit left out;
\* C17_ScaleRange tells it apart.
ClampScaleAboveOnly(scale) == Min2(ZOOM_MAX, scale)

\* max(ZOOM_MIN, min(ZOOM_MAX, scale))
ClampScale(scale) == Max2(ZOOM_MIN, Min2(ZOOM_MAX, scale))

\* An offset scaled about the logical origin instead of the zoom origin;
\* C16_ZoomToCursorRounded tells it apart.
ZoomOffsetAboutZero(c, scale_ratio, offset) == MulDiv(offset, scale_ratio, ScaleUnit)

\* cx - scale_ratio * (cx - ws.offset_x)
ZoomOffset(c, scale_ratio, offset) == c - MulDiv(c - offset, scale_ratio, ScaleUnit)

\* 1 / ZOOM_STEP
ZoomOutFactor == MulDiv(ScaleUnit, ScaleUnit, ZOOM_STEP)

\* zoom's new_scale
NewScale(w, factor) == ClampScale(MulDiv(w.scale, factor, ScaleUnit))

\* zoom: origin is <<>> for None, else the event's point.
ZoomHandler(w0, factor, origin) ==
    LET w         == Begin(w0)
        old_scale == w.scale
        new_scale == NewScale(w, factor)
    IN  IF Abs(new_scale - old_scale) < ZoomEpsilon THEN w
        ELSE LET o == IF origin = <<>> THEN <<CanvasCX * Unit, CanvasCY * Unit>> ELSE origin
                 scale_ratio == IF old_scale # 0 THEN MulDiv(new_scale, ScaleUnit, old_scale)
                                ELSE ScaleUnit
             IN  Redraw([w EXCEPT !.offset_x = ZoomOffset(o[1], scale_ratio, w.offset_x),
                                  !.offset_y = ZoomOffset(o[2], scale_ratio, w.offset_y),
                                  !.scale = new_scale])

\* pan_by
PanByHandler(w0, dx, dy) ==
    LET w == Begin(w0)
    IN  Redraw([w EXCEPT !.offset_x = w.offset_x + dx, !.offset_y = w.offset_y + dy])

\* reset_view
ResetViewHandler(w0) ==
    Redraw([Begin(w0) EXCEPT !.scale = ScaleUnit, !.offset_x = 0, !.offset_y = 0])

\* ViewSpec starts after at most this many presses of one zoom key, and
\* handles at most MaxEvents view events from there.
MaxZooms == 10
MaxEvents == 3

\* The workspace after k presses of Ctrl-plus (factor ZOOM_STEP) or of
\* Ctrl-minus.
RECURSIVE ZoomTimes(_, _, _)
ZoomTimes(w, factor, k) ==
    IF k = 0 THEN w ELSE ZoomTimes(ZoomHandler(w, factor, <<>>), factor, k - 1)

ViewInit ==
    /\ \E k \in 0..MaxZooms : \E factor \in {ZOOM_STEP, ZoomOutFactor} :
          /\ ws = ZoomTimes(EmptyWorkspace, factor, k)
          /\ last = IF k = 0 THEN "init" ELSE "zoom"
    /\ declared = None
    /\ run = IdleRun
    /\ events = 0
    /\ route = NoRoute
    /\ markup = NoMarkup

\* Where the pointer is when a mouse event arrives.
EventPoints == {<<123 * Unit, 77 * Unit>>, <<640 * Unit, 460 * Unit>>}

\* Ctrl-plus and Ctrl-minus zoom about the canvas centre, the Ctrl-wheel
\* about the pointer.
Zoom ==
    /\ events < MaxEvents
    /\ \E factor \in {ZOOM_STEP, ZoomOutFactor} : \E origin \in {<<>>} \cup EventPoints :
          ws' = ZoomHandler(ws, factor, origin)
    /\ last' = "zoom"
    /\ events' = events + 1
    /\ UNCHANGED <<declared, run, route, markup>>

\* The arrow keys, and the wheel for the vertical direction.
PanBy ==
    /\ events < MaxEvents
    /\ \E d \in {<<0, PAN_STEP>>, <<0, -PAN_STEP>>, <<PAN_STEP, 0>>, <<-PAN_STEP, 0>>} :
          ws' = PanByHandler(ws, d[1] * Unit, d[2] * Unit)
    /\ last' = "pan_by"
    /\ events' = events + 1
    /\ UNCHANGED <<declared, run, route, markup>>

ResetView ==
    /\ events < MaxEvents
    /\ ws' = ResetViewHandler(ws)
    /\ last' = "reset_view"
    /\ events' = events + 1
    /\ UNCHANGED <<declared, run, route, markup>>

\* A press on the empty canvas.
Press ==
    /\ events < MaxEvents
    /\ ws.dragging.mode = "none"
    /\ \E p \in EventPoints : ws' = OnClickHandler(ws, p[1], p[2])
    /\ last' = "on_click"
    /\ events' = events + 1
    /\ UNCHANGED <<declared, run, route, markup>>

\* A press on a drawn node, at its centre.
PressNode ==
    /\ events < MaxEvents
    /\ ws.dragging.mode = "none"
    /\ \E nid \in DOMAIN ws.nodes :
          LET c == ToCanvasPoint(ws, ws.nodes[nid].x, ws.nodes[nid].y)
          IN  ws' = OnClickNodeHandler(ws, nid, c[1], c[2])
    /\ last' = "on_click_node"
    /\ events' = events + 1
    /\ UNCHANGED <<declared, run, route, markup>>

\* A motion with the button down.
Drag ==
    /\ events < MaxEvents
    /\ ws.dragging.mode # "none"
    /\ \E p \in EventPoints : ws' = OnDragHandler(ws, p[1], p[2])
    /\ last' = "on_drag"
    /\ events' = events + 1
    /\ UNCHANGED <<declared, run, route, markup>>

Release ==
    /\ ws.dragging.mode # "none"
    /\ ws' = OnReleaseHandler(ws)
    /\ last' = "on_release"
    /\ UNCHANGED <<declared, run, events, route, markup>>

\* _load_data_into_current_workspace, whatever the workspace held before.
LoadInto ==
    /\ events < MaxEvents
    /\ \E doc \in TreeDocs(2) : ws' = LoadHandler(doc)
    /\ declared' = None
    /\ last' = "load"
    /\ events' = events + 1
    /\ UNCHANGED <<run, route, markup>>

ViewNext ==
    \/ Zoom
    \/ PanBy
    \/ ResetView
    \/ Press
    \/ PressNode
    \/ Drag
    \/ Release
    \/ LoadInto

ViewSpec == ViewInit /\ [][ViewNext]_vars

\* ------------------------------------------------------------ edge routing
\* The values of the edge-offset memory are kept in route.offsets, and
\* route.answers holds what _paths_cross has returned for the pairs of paths
\* it was asked about since the nodes and the view last changed.  A path is
\* a pair of an edge and the offset it is drawn with, a question is
\* <<candidate path, drawn path>>.  The sampled curves themselves are not
\* modelled: an answer not yet given may be either, an answer once given is
\* given again.
MaxRouteId == 3
MaxRouteEdges == 2
\* RouteSpec redraws while no remembered offset is further than this from 0.
MaxDrift == 240

\* steps, with the negative step of each size tried first; C18_CandidateSearch
\* tells it apart.
OffsetStepsNegativeFirst == <<0, -20, 20, -40, 40, -60, 60, -80, 80>>

\* steps of _edge_offset_candidates
OffsetSteps == <<0, 20, -20, 40, -40, 60, -60, 80, -80>>

\* _edge_offset_candidates: a candidate equal to the one before it is left out.
RECURSIVE OffsetCandidatesFrom(_, _, _)
OffsetCandidatesFrom(base, i, offsets) ==
    IF i > Len(OffsetSteps) THEN offsets
    ELSE LET candidate == base + OffsetSteps[i]
         IN  OffsetCandidatesFrom(base, i + 1,
                 IF offsets = <<>> \/ Abs(offsets[Len(offsets)] - candidate) > 0
                 THEN Append(offsets, candidate) ELSE offsets)

EdgeOffsetCandidates(base) == OffsetCandidatesFrom(base, 1, <<>>)

\* _shares_endpoint for the paths of two edges between the same two nodes:
\* start and end are the exit points of the two nodes towards each other,
\* whatever the offset.
SharesEndpoint(key, other) == other = key \/ other = <<key[2], key[1]>>

\* What _paths_cross can return for a question.
PathsCross(answers, q) ==
    IF q \in DOMAIN answers THEN {answers[q]} ELSE BOOLEAN

\* _path_intersects from the drawn path j on: whether a crossing was found,
\* with the answers given by then.
RECURSIVE PathIntersects(_, _, _, _)
PathIntersects(path, drawn, j, answers) ==
    IF j > Len(drawn) THEN {[hit |-> FALSE, answers |-> answers]}
    ELSE IF SharesEndpoint(path[1], drawn[j][1])
    THEN PathIntersects(path, drawn, j + 1, answers)
    ELSE LET q == <<path, drawn[j]>>
         IN  UNION {IF a THEN {[hit |-> TRUE, answers |-> Put(answers, q, a)]}
                    ELSE PathIntersects(path, drawn, j + 1, Put(answers, q, a)) :
                    a \in PathsCross(answers, q)}

\* The offset _render_edge falls back to when every candidate crosses.
FallbackOffset(candidates) == candidates[Len(candidates)]

\* _render_edge from candidate i on: the offsets it can choose, each with
\* the answers given by then.
RECURSIVE RenderEdge(_, _, _, _, _)
RenderEdge(key, candidates, i, drawn, answers) ==
    IF i > Len(candidates)
    THEN {[offset |-> FallbackOffset(candidates), answers |-> answers]}
    ELSE UNION {IF r.hit THEN RenderEdge(key, candidates, i + 1, drawn, r.answers)
                ELSE {[offset |-> candidates[i], answers |-> r.answers]} :
                r \in PathIntersects(<<key, candidates[i]>>, drawn, 1, answers)}

\* The loop of redraw over the edges from position i on.
RECURSIVE RenderEdges(_, _, _, _, _)
RenderEdges(edges, i, offsets, drawn, answers) ==
    IF i > Len(edges) THEN {[offsets |-> offsets, answers |-> answers]}
    ELSE LET key  == edges[i]
             base == IF key \in DOMAIN offsets THEN offsets[key] ELSE 0
         IN  UNION {RenderEdges(edges, i + 1, Put(offsets, key, r.offset),
                                Append(drawn, <<key, r.offset>>), r.answers) :
                    r \in RenderEdge(key, EdgeOffsetCandidates(base), 1, drawn, answers)}

\* The edges redraw renders: all of them, or those before the first one
\* whose child is missing.
RenderedEdges(w) ==
    LET edges == Edges(w)
        bad   == {i \in 1..Len(edges) : RenderRaises(w, edges[i])}
    IN  IF bad = {} THEN edges
        ELSE SubSeq(edges, 1, (CHOOSE i \in bad : \A j \in bad : i <= j) - 1)

\* The remembered offsets redraw keeps: those of the current edges.
PrunedOffsets(w, offsets) ==
    [key \in DOMAIN offsets \cap Range(Edges(w)) |-> offsets[key]]

\* redraw, for the values of the memory: what a pass over the workspace w
\* can leave, starting from rt.
RedrawRoutes(w, rt) ==
    RenderEdges(RenderedEdges(w), 1, PrunedOffsets(w, rt.offsets), <<>>, rt.answers)

\* The documents with the nodes 1..n, the root 1 and up to MaxRouteEdges
\* (parent, child) pairs in their children lists.
RouteDocs(n) ==
    {TreeDoc(n, es, 1) :
        es \in UNION {[1..k -> (1..n) \X (1..n)] : k \in 0..MaxRouteEdges}}

\* load, of a document of up to MaxRouteId nodes.
RouteLoad ==
    /\ ws = EmptyWorkspace
    /\ \E n \in 1..MaxRouteId : \E doc \in RouteDocs(n) : ws' = LoadHandler(doc)
    /\ route' \in RedrawRoutes(ws', NoRoute)
    /\ declared' = None
    /\ last' = "load"
    /\ UNCHANGED <<run, events, markup>>

\* reset_view on a view that is reset already: a full redraw with no change
\* to nodes, tree or view.
RouteRedraw ==
    /\ ws.nodes # <<>>
    /\ \A key \in DOMAIN route.offsets : Abs(route.offsets[key]) <= MaxDrift
    /\ ws' = ResetViewHandler(ws)
    /\ route' \in RedrawRoutes(ws', route)
    /\ last' = "reset_view"
    /\ UNCHANGED <<declared, run, events, markup>>

RouteNext ==
    \/ RouteLoad
    \/ RouteRedraw

RouteSpec == Init /\ [][RouteNext]_vars

\* ------------------------------------------------------------ properties
\* The nodes of the table with no parent.
Parentless(w) == {n \in DOMAIN w.nodes : Get(w.parent, n) = None}

\* The number of occurrences of v in a list.
Count(s, v) == Cardinality({i \in 1..Len(s) : s[i] = v})

\* The children lists name an id that is no node.
HasDanglingChild(w) ==
    \E p \in DOMAIN w.nodes : \E i \in 1..Len(w.nodes[p].children) :
        w.nodes[p].children[i] \notin DOMAIN w.nodes

\* The logical positions of the nodes.
Positions(w) == [n \in DOMAIN w.nodes |-> <<w.nodes[n].x, w.nodes[n].y>>]

\* C1: in every reachable state with a non-empty node table exactly one node
\* has no parent (parent map value None).
C1_OneParentless ==
    DOMAIN ws.nodes # {} => Cardinality(Parentless(ws)) = 1

\* C2: in every reachable state the parent map and the children lists agree
\* in both directions: c is in p's children list iff parent[c] = p.
C2_ParentChildrenAgree ==
    \A p, c \in DOMAIN ws.nodes :
        (c \in Range(ws.nodes[p].children)) <=> (Get(ws.parent, c) = p)

\* C3: a delete that goes ahead on a node whose subtree was collected removes
\* exactly the nodes of the subtree from the node table and from the parent
\* map, and no surviving node's parent is a removed node.
C3_DeleteCascade ==
    [][(/\ last' = "delete_selected"
        /\ ws.selected # None
        /\ CollectSubtree(ws.nodes, ws.selected)[1] = "none"
        /\ ws' = DeleteSelectedHandler(ws, TRUE))
       => LET removed == Range(CollectSubtree(ws.nodes, ws.selected)[2])
          IN  /\ DOMAIN ws'.nodes = DOMAIN ws.nodes \ removed
              /\ DOMAIN ws'.parent = DOMAIN ws.parent \ removed
              /\ \A n \in DOMAIN ws'.nodes : Get(ws'.parent, n) \notin removed]_vars

\* C4: in every reachable state the root id is None exactly when the node
\* table is empty, and otherwise is the id of a node of the table.
C4_RootPresent ==
    /\ (ws.root_id = None) <=> (DOMAIN ws.nodes = {})
    /\ ws.root_id # None => ws.root_id \in DOMAIN ws.nodes

\* C5: next_id is above every id of the node table; an id enters the table
\* only as the next_id of the moment, and next_id never decreases, so an id
\* that was ever in the table is never handed out again; after load next_id
\* is the maximum of the declared next_id and 1 + the largest loaded id.
C5_NextIdAbove ==
    /\ [](\A n \in DOMAIN ws.nodes : n < ws.next_id)
    /\ [][/\ ws'.next_id >= ws.next_id
          /\ \A n \in DOMAIN ws'.nodes \ DOMAIN ws.nodes :
                last' # "load" => n = ws.next_id /\ ws'.next_id > n
          /\ last' = "load" =>
                ws'.next_id = Max2(declared', 1 + MaxLoadedId(ws'.nodes))]_vars

\* A document declared a next_id no larger than one of its ids; a node was
\* deleted, and a node created afterwards took the largest id so far.
C5_Witness ==
    /\ last \in {"add_child", "new_root", "on_double_click"}
    /\ declared # None
    /\ \E n \in DOMAIN ws.nodes : ws.nodes[n].text = "Doc" /\ n >= declared
    /\ (ws.next_id - 1) \in DOMAIN ws.nodes
    /\ ws.nodes[ws.next_id - 1].text # "Doc"
    /\ Cardinality(DOMAIN ws.nodes) < ws.next_id - 1

\* C6: after loading a document whose children lists name an id that is no
\* loaded node, no exception was raised and the parent map has no entry for
\* an id that is no node.
C6_DanglingChildTolerated ==
    (last = "load" /\ HasDanglingChild(ws)) =>
        /\ ws.exc = "none"
        /\ DOMAIN ws.parent \subseteq DOMAIN ws.nodes

\* C7: for a non-empty workspace, loading the document save writes gives a
\* node table with the same ids and, per node, the same text, x, y, children
\* list, fill and custom flag, and the same root id.
C7_RoundTrip ==
    DOMAIN ws.nodes # {} =>
        LET v == LoadHandler(SaveDoc(ws))
        IN  /\ DOMAIN v.nodes = DOMAIN ws.nodes
            /\ \A n \in DOMAIN ws.nodes :
                  /\ v.nodes[n].text = ws.nodes[n].text
                  /\ v.nodes[n].x = ws.nodes[n].x
                  /\ v.nodes[n].y = ws.nodes[n].y
                  /\ v.nodes[n].children = ws.nodes[n].children
                  /\ v.nodes[n].fill = ws.nodes[n].fill
                  /\ v.nodes[n].custom = ws.nodes[n].custom
            /\ v.root_id = ws.root_id

\* An edited workspace whose root is not its first node and has a child.
C7_Witness ==
    /\ last = "set_root"
    /\ ws.exc = "none"
    /\ Cardinality(DOMAIN ws.nodes) >= 2
    /\ ws.root_id \in DOMAIN ws.nodes
    /\ ws.root_id # ws.order[1]
    /\ \E n \in DOMAIN ws.nodes : Len(ws.nodes[n].children) > 0

\* What add-edge(p, c) leaves behind, from the workspace w to the workspace v;
\* q is c's previous parent.
AddEdgePost(w, v, p, c) ==
    LET q == Get(w.parent, c)
    IN  /\ Get(v.parent, c) = p
        /\ Count(v.nodes[p].children, c) = 1
        /\ c \notin Range(w.nodes[p].children) =>
              v.nodes[p].children = Append(w.nodes[p].children, c)
        /\ (q # None /\ q # p) => c \notin Range(v.nodes[q].children)
        /\ w.root_id = c => (v.root_id = p /\ Get(v.parent, p) = None)

\* C8: add-edge(p, c) for distinct existing nodes p and c: afterwards
\* parent[c] = p, c occurs exactly once in p's children list (appended at the
\* end if it was not there), c no longer occurs in the children list of its
\* previous parent if that was another node than p, and if c was the root
\* then p is the root with parent[p] = None.
C8_AddEdge ==
    [][\A p, c \in DOMAIN ws.nodes :
          (p # c /\ last' = "add_edge" /\ ws' = AddEdge(Begin(ws), p, c))
              => AddEdgePost(ws, ws', p, c)]_vars

\* add-edge has moved a node from one parent to another.
C8_Witness ==
    /\ last = "add_edge"
    /\ \E p, q, c \in DOMAIN ws.nodes :
          /\ p # q /\ p # c /\ q # c
          /\ ws.parent[c] = p
          /\ c \in Range(ws.nodes[p].children)
          /\ c \notin Range(ws.nodes[q].children)
          /\ ws.parent[p] = q

\* C8 as first stated, for any existing nodes p and c, p = c included.
C8_AddEdgeAnyPair ==
    [][\A p, c \in DOMAIN ws.nodes :
          (last' = "add_edge" /\ ws' = AddEdge(Begin(ws), p, c))
              => AddEdgePost(ws, ws', p, c)]_vars

\* C9: a call of auto_layout on a loaded document comes to an end: the walks
\* of the directions and of the depths finish or raise.
C9_LayoutTerminates ==
    (run.pc = "directions") ~> (run.pc \in {"done", "raised", "overflow"})

\* The workspace with its positions and its edge-offset memory forgotten.
Forget(w) ==
    [w EXCEPT !.nodes = [n \in DOMAIN w.nodes |-> [w.nodes[n] EXCEPT !.x = 0, !.y = 0]],
              !.edge_offsets = {}]

\* C10: in a state auto_layout has just left without raising, a second
\* auto_layout leaves every node where it is, and the positions are those
\* auto_layout chooses with the previous positions and the edge-offset
\* memory forgotten.
C10_Idempotent ==
    (last = "auto_layout" /\ ws.exc = "none" /\ ~ws.hung) =>
        /\ Positions(AutoLayoutHandler(ws)) = Positions(ws)
        /\ Positions(AutoLayoutHandler(Forget(ws))) = Positions(ws)

\* auto_layout has placed a root and its two children, one on each side.
C10_Witness ==
    /\ last = "auto_layout"
    /\ ws.exc = "none"
    /\ ~ws.hung
    /\ Cardinality(DOMAIN ws.nodes) = 3
    /\ ws.root_id \in DOMAIN ws.nodes
    /\ Len(ws.nodes[ws.root_id].children) = 2
    /\ \E n, m \in DOMAIN ws.nodes :
          ws.nodes[n].x < CanvasCX * Unit /\ ws.nodes[m].x > CanvasCX * Unit

\* The root auto_layout lays the workspace out from.
LayoutRoot(w) == IF w.root_id # None THEN w.root_id ELSE w.order[1]

\* The ids reachable from the layout root through the children lists.
Reach(w) == Closure(w.nodes, {LayoutRoot(w)})

\* The children lists under the root form a tree: every id they name is a
\* node, none is named twice, and the root is not named.
TreeUnderRoot(w) ==
    LET R == Reach(w)
    IN  /\ R \subseteq DOMAIN w.nodes
        /\ \A p, q \in R :
              \A i \in 1..Len(w.nodes[p].children) : \A j \in 1..Len(w.nodes[q].children) :
                 /\ w.nodes[p].children[i] # LayoutRoot(w)
                 /\ w.nodes[p].children[i] = w.nodes[q].children[j] => (p = q /\ i = j)

\* What C11 says of the directions d of the workspace w.
DirectionsAsStated(w, d) ==
    LET root == LayoutRoot(w)
        children == w.nodes[root].children
    IN  /\ d[root] = 0
        /\ \A i \in 1..Len(children) :
              d[children[i]] = IF (i - 1) % 2 = 0 THEN -1 ELSE 1
        /\ \A i \in 1..Len(children) :
              \A n \in Closure(w.nodes, {children[i]}) : d[n] = d[children[i]]
        /\ \A n \in DOMAIN w.nodes \ Reach(w) : d[n] = 1

\* auto_layout has just returned, with the directions it computed.
LaidOut == last = "auto_layout" /\ ~ws.hung /\ DOMAIN ws.nodes # {}
                /\ AssignDirections(ws.nodes, LayoutRoot(ws)).exc = "none"

\* C11: when the children lists under the root form a tree, the root gets
\* direction 0, the root's child at index i gets -1 for even i and +1 for
\* odd i, every descendant of a root child gets that child's direction, and
\* every node not reachable from the root gets +1.
C11_Directions ==
    (LaidOut /\ TreeUnderRoot(ws)) =>
        DirectionsAsStated(ws, AssignDirections(ws.nodes, LayoutRoot(ws)).directions)

\* A laid-out tree of four nodes: the root has two children and its second
\* child has a child.
C11_Witness ==
    /\ LaidOut
    /\ ws.exc = "none"
    /\ TreeUnderRoot(ws)
    /\ Cardinality(DOMAIN ws.nodes) = 4
    /\ Len(ws.nodes[LayoutRoot(ws)].children) = 2
    /\ Len(ws.nodes[ws.nodes[LayoutRoot(ws)].children[2]].children) = 1

\* C11 as first stated, for any children lists auto_layout returns from.
C11_DirectionsAnyLists ==
    LaidOut =>
        DirectionsAsStated(ws, AssignDirections(ws.nodes, LayoutRoot(ws)).directions)

\* The slots auto_layout computes for the workspace w.
LayoutSlots(w) ==
    ComputeVerticalSlots(w, LayoutRoot(w),
                         AssignDirections(w.nodes, LayoutRoot(w)).directions,
                         ComputeDepths(w, LayoutRoot(w)).dep).slots

\* The sum of the slots of the nodes of S.
RECURSIVE SumSlots(_, _)
SumSlots(slots, S) ==
    IF S = {} THEN 0
    ELSE LET n == CHOOSE m \in S : TRUE IN slots[n] + SumSlots(slots, S \ {n})

\* The children of the root that auto_layout gives the direction d.
RootSide(w, d) ==
    {n \in DOMAIN w.nodes :
        /\ Get(w.parent, n) = LayoutRoot(w)
        /\ AssignDirections(w.nodes, LayoutRoot(w)).directions[n] = d}

\* C12: after auto_layout of a tree, the slots of the root's children of one
\* direction are symmetric around 0: on each side their sum is 0, whatever
\* the number of root children.
C12_SlotSymmetry ==
    (LaidOut /\ ws.exc = "none" /\ TreeUnderRoot(ws)) =>
        \A d \in {-1, 1} : SumSlots(LayoutSlots(ws), RootSide(ws, d)) = 0

\* The depths auto_layout computes for the workspace w.
LayoutDepths(w) == ComputeDepths(w, LayoutRoot(w)).dep.val

\* The directions auto_layout computes for the workspace w.
LayoutDirections(w) == AssignDirections(w.nodes, LayoutRoot(w)).directions

\* C13: after auto_layout every node has x = centre x + direction * depth *
\* (NODE_W + HORIZ_GAP) and y = centre y + (slot - root slot) * (NODE_H +
\* VERT_GAP); for a root with two children, both children have depth 1, the
\* child at index 0 lies left of the root and the child at index 1 right.
C13_Placement ==
    (LaidOut /\ ws.exc = "none") =>
        LET root == LayoutRoot(ws)
            c  == FromCanvasPoint(ws, CanvasCX * Unit, CanvasCY * Unit)
            cx == c[1]
            cy == c[2]
            children == ws.nodes[root].children
        IN  /\ \A n \in DOMAIN ws.nodes :
                  /\ ws.nodes[n].x = cx + LayoutDirections(ws)[n] * LayoutDepths(ws)[n]
                                             * (NODE_W + HORIZ_GAP) * Unit
                  /\ ws.nodes[n].y = cy + (LayoutSlots(ws)[n] - LayoutSlots(ws)[root])
                                             * (NODE_H + VERT_GAP)
            /\ (TreeUnderRoot(ws) /\ Len(children) = 2) =>
                  /\ LayoutDepths(ws)[children[1]] = 1
                  /\ LayoutDepths(ws)[children[2]] = 1
                  /\ ws.nodes[children[1]].x < ws.nodes[root].x
                  /\ ws.nodes[children[2]].x > ws.nodes[root].x

\* From the empty workspace a root was created and two children were added
\* to it; auto_layout has placed them.
C13_Witness ==
    /\ LaidOut
    /\ ws.exc = "none"
    /\ ws.order = <<1, 2, 3>>
    /\ ws.root_id = 1
    /\ ws.nodes[1].text = "Root"
    /\ ws.nodes[1].children = <<2, 3>>
    /\ ws.nodes[2].text = "New Node"
    /\ ws.nodes[2].x = ws.nodes[1].x - (NODE_W + HORIZ_GAP) * Unit
    /\ ws.nodes[3].x = ws.nodes[1].x + (NODE_W + HORIZ_GAP) * Unit

\* The cells the search examines around a candidate: the candidate itself
\* and the rings of radius 1..SearchRadius.
SearchCells == (-SearchRadius..SearchRadius) \X (-SearchRadius..SearchRadius)

\* The Chebyshev radius of a cell.
Cheb(c) == Max2(Abs(c[1]), Abs(c[2]))

\* The cell c comes before the cell d: radius first, then dx, then dy.
Earlier(c, d) ==
    \/ Cheb(c) < Cheb(d)
    \/ Cheb(c) = Cheb(d) /\ (c[1] < d[1] \/ (c[1] = d[1] /\ c[2] < d[2]))

\* The point of the cell c around the candidate p.
CellPoint(p, c) ==
    <<p[1] + c[1] * (NODE_W + HORIZ_GAP) * Unit, p[2] + c[2] * (NODE_H + VERT_GAP) * Unit>>

\* The point q is free in the node table: no node is nearer than NODE_W +
\* NODE_MARGIN in x and nearer than NODE_H + NODE_MARGIN in y.
Free(nodes, q) ==
    \A n \in DOMAIN nodes :
        \/ Abs(q[1] - nodes[n].x) >= (NODE_W + NODE_MARGIN) * Unit
        \/ Abs(q[2] - nodes[n].y) >= (NODE_H + NODE_MARGIN) * Unit

\* The candidate and every ring cell around it are occupied.
Exhausted(nodes, p) == \A c \in SearchCells : ~Free(nodes, CellPoint(p, c))

\* The point q is the first free cell around the candidate p.
FirstFreeCell(nodes, p, q) ==
    \E c \in SearchCells :
        /\ q = CellPoint(p, c)
        /\ Free(nodes, q)
        /\ \A d \in SearchCells : Earlier(d, c) => ~Free(nodes, CellPoint(p, d))

\* The number of points _find_free_position tests for the candidate p before
\* it returns q: the candidate, and the ring cells up to the one returned.
FinderExamined(nodes, p, q) ==
    IF Free(nodes, p) THEN 1
    ELSE 1 + Cardinality({c \in SearchCells \ {<<0, 0>>} :
                             \A d \in SearchCells :
                                (d # <<0, 0>> /\ Earlier(d, c)) => ~Free(nodes, CellPoint(p, d))})

\* The position _create_node gave the node it created in the step.
Created == <<ws'.nodes[ws.next_id].x, ws'.nodes[ws.next_id].y>>

\* The step creates a node at the candidate p.
CreatesAt(p) == last' = "create_node" /\ ws' = CreateNode(Begin(ws), "New Node", p[1], p[2])

\* C14: when the candidate or a ring cell of radius 1..8 around it is free,
\* the point the finder returns is free, lies a whole number of grid steps
\* from the candidate, and is the first free cell in the order radius, dx,
\* dy: the candidate itself when that is free.
C14_FreePosition ==
    [][\A p \in FinderPoints :
          (CreatesAt(p) /\ ~Exhausted(ws.nodes, p))
              => FirstFreeCell(ws.nodes, p, Created)]_vars

\* A node was created two or more rings away from an occupied candidate.
C14_Witness ==
    /\ last = "create_node"
    /\ \E p \in FinderPoints :
          LET nid == ws.next_id - 1
              old == Pop(ws.nodes, nid)
              q   == <<ws.nodes[nid].x, ws.nodes[nid].y>>
          IN  /\ ~Free(old, p)
              /\ \A c \in RingCells(1) : ~Free(old, CellPoint(p, c))
              /\ \E c \in SearchCells : q = CellPoint(p, c) /\ Free(old, q)

\* C14 as first stated, for any candidate and any node table.
C14_FreePositionAnyTable ==
    [][\A p \in FinderPoints :
          CreatesAt(p) => FirstFreeCell(ws.nodes, p, Created)]_vars

\* C15: when the candidate and every ring cell of radius 1..8 are occupied,
\* the finder returns the candidate plus 10 grid steps in x and in y, whether
\* or not that point is free, raises nothing, and has tested no more than
\* the 17 * 17 cells of the search.
C15_Exhausted ==
    [][\A p \in FinderPoints :
          (CreatesAt(p) /\ Exhausted(ws.nodes, p))
              => /\ Created = <<p[1] + 10 * (NODE_W + HORIZ_GAP) * Unit,
                                p[2] + 10 * (NODE_H + VERT_GAP) * Unit>>
                 /\ ws'.exc = "none"
                 /\ FinderExamined(ws.nodes, p, Created)
                       <= (2 * SearchRadius + 1) * (2 * SearchRadius + 1)]_vars

\* A node was created on the fallback point of an exhausted search, where
\* another node already stood.
C15_Witness ==
    /\ last = "create_node"
    /\ \E p \in FinderPoints :
          LET nid == ws.next_id - 1
              old == Pop(ws.nodes, nid)
              q   == <<ws.nodes[nid].x, ws.nodes[nid].y>>
          IN  /\ Exhausted(old, p)
              /\ q = CellPoint(p, <<FallbackRadius, FallbackRadius>>)
              /\ ~Free(old, q)

\* ------------------------------------------------------------ C16
\* The origins a zoom can be given: None, or the pointer of a Ctrl-wheel event.
ZoomOrigins == {<<>>} \cup EventPoints

\* The canvas point a zoom about origin keeps in place.
OriginPoint(origin) ==
    IF origin = <<>> THEN <<CanvasCX * Unit, CanvasCY * Unit>> ELSE origin

\* The step is zoom(factor, origin) and changes the scale.
ZoomChanges(factor, origin) ==
    /\ last' = "zoom"
    /\ ws' = ZoomHandler(ws, factor, origin)
    /\ ws'.scale # ws.scale

\* How far the logical point under a canvas point moves in the step, as the
\* larger of the two coordinate differences.
LogicalShift(p) ==
    LET a == FromCanvasPoint(ws, p[1], p[2])
        b == FromCanvasPoint(ws', p[1], p[2])
    IN  Max2(Abs(a[1] - b[1]), Abs(a[2] - b[2]))

\* Rounding moves a logical coordinate by less than this across a zoom: a
\* quarter of a logical unit.
ZoomTolerance == Unit \div 4

\* C16 (as amended): a zoom that changes the scale, clamped or not, leaves
\* the logical coordinate under its origin where it was up to the rounding
\* of the arithmetic.
C16_ZoomToCursorRounded ==
    [][\A factor \in {ZOOM_STEP, ZoomOutFactor} : \A origin \in ZoomOrigins :
          ZoomChanges(factor, origin) => LogicalShift(OriginPoint(origin)) <= ZoomTolerance]_vars

\* C16 (as stated): a zoom that changes the scale leaves the logical
\* coordinate under its origin exactly where it was.
C16_ZoomToCursor ==
    [][\A factor \in {ZOOM_STEP, ZoomOutFactor} : \A origin \in ZoomOrigins :
          ZoomChanges(factor, origin) => LogicalShift(OriginPoint(origin)) = 0]_vars

\* A Ctrl-wheel zoom about the pointer has raised the scale to the upper
\* limit: the offset is not the one that zooming about the centre leaves.
C16_Witness ==
    /\ last = "zoom"
    /\ events = 1
    /\ ws.scale = ZOOM_MAX
    /\ ws.offset_x # ZoomTimes(EmptyWorkspace, ZOOM_STEP, MaxZooms).offset_x

\* ------------------------------------------------------------ C17
\* zoom(factor, origin) is the step, and its clamped result is within 1e-3
\* of the old scale.
ZoomBelowEpsilon(factor, origin) ==
    /\ last' = "zoom"
    /\ ws' = ZoomHandler(ws, factor, origin)
    /\ Abs(NewScale(ws, factor) - ws.scale) < ZoomEpsilon

\* C17: through zoom, pan, reset-view, drag and load the scale stays between
\* ZOOM_MIN and ZOOM_MAX, so it is never 0; a zoom whose clamped result is
\* within 1e-3 of the old scale leaves scale and offset unchanged.
C17_ScaleRange ==
    /\ [](ZOOM_MIN <= ws.scale /\ ws.scale <= ZOOM_MAX /\ ws.scale # 0)
    /\ [][\A factor \in {ZOOM_STEP, ZoomOutFactor} : \A origin \in ZoomOrigins :
            ZoomBelowEpsilon(factor, origin)
                => /\ ws'.scale = ws.scale
                   /\ ws'.offset_x = ws.offset_x
                   /\ ws'.offset_y = ws.offset_y]_vars

\* A zoom has been handled with the scale at the lower limit, after a pan.
C17_Witness ==
    /\ last = "zoom"
    /\ events >= 2
    /\ ws.scale = ZOOM_MIN
    /\ ws.offset_x # ZoomTimes(EmptyWorkspace, ZoomOutFactor, MaxZooms).offset_x

\* ------------------------------------------------------------ C18
\* The steps of the candidate search in the order the claim states.
StatedSteps == <<0, 20, -20, 40, -40, 60, -60, 80, -80>>

\* By the answers given, the path crosses a path drawn before it that it
\* shares no endpoint with.
Crosses(answers, path, drawn) ==
    \E j \in 1..Len(drawn) :
        /\ ~SharesEndpoint(path[1], drawn[j][1])
        /\ <<path, drawn[j]>> \in DOMAIN answers
        /\ answers[<<path, drawn[j]>>]

\* By the answers given, the path crosses no such path.
Clear(answers, path, drawn) ==
    \A j \in 1..Len(drawn) :
        \/ SharesEndpoint(path[1], drawn[j][1])
        \/ /\ <<path, drawn[j]>> \in DOMAIN answers
           /\ ~answers[<<path, drawn[j]>>]

\* The candidates the claim states for an edge that are clear while every
\* earlier one crosses: at most one.
StatedAccepted(key, base, drawn, answers) ==
    {k \in 1..Len(StatedSteps) :
        /\ Clear(answers, <<key, base + StatedSteps[k]>>, drawn)
        /\ \A j \in 1..(k - 1) : Crosses(answers, <<key, base + StatedSteps[j]>>, drawn)}

\* Every candidate of the edge crosses.
AllCross(key, base, drawn, answers) ==
    \A k \in 1..Len(StatedSteps) : Crosses(answers, <<key, base + StatedSteps[k]>>, drawn)

\* The memory the claim states for a pass over edges: each edge in turn,
\* from its remembered offset (0 if none), gets the first clear candidate,
\* or the last candidate when all cross, stored under (parent, child).
\* settled is FALSE when the answers name neither for some edge.
RECURSIVE StatedOffsets(_, _, _, _, _)
StatedOffsets(edges, i, offsets, drawn, answers) ==
    IF i > Len(edges) THEN [settled |-> TRUE, offsets |-> offsets]
    ELSE LET key    == edges[i]
             base   == IF key \in DOMAIN offsets THEN offsets[key] ELSE 0
             ok     == StatedAccepted(key, base, drawn, answers)
             chosen == IF ok # {} THEN base + StatedSteps[CHOOSE k \in ok : TRUE]
                       ELSE base - 80
         IN  IF ok = {} /\ ~AllCross(key, base, drawn, answers)
             THEN [settled |-> FALSE, offsets |-> offsets]
             ELSE StatedOffsets(edges, i + 1, Put(offsets, key, chosen),
                                Append(drawn, <<key, chosen>>), answers)

\* The memory a redraw starts from in the step: empty after the loader's
\* clear, else the remembered offsets of the edges that still exist.
OffsetsBefore ==
    IF last' = "load" THEN <<>> ELSE PrunedOffsets(ws', route.offsets)

\* C18: in every redraw pass each edge gets the first of the candidates
\* remembered offset + 0, +20, -20, +40, -40, +60, -60, +80, -80 that crosses
\* no path drawn before it in the pass (paths sharing an endpoint apart), or
\* the last candidate, remembered offset - 80, when all cross; the offset is
\* stored under (parent, child).
C18_CandidateSearch ==
    [][last' \in {"load", "reset_view"}
          => LET stated == StatedOffsets(RenderedEdges(ws'), 1, OffsetsBefore,
                                         <<>>, route'.answers)
             IN  /\ stated.settled
                 /\ route'.offsets = stated.offsets
                 /\ DOMAIN route'.offsets = ws'.edge_offsets]_vars

\* The pass of a load accepted the fourth candidate of an edge, + 40, the
\* three before it crossing the edge drawn first.
C18_Witness ==
    /\ last = "load"
    /\ \E key \in DOMAIN route.offsets : route.offsets[key] = 40
    /\ \E q \in DOMAIN route.answers : route.answers[q]

\* ------------------------------------------------------------ C20
\* C20: a full redraw that follows a full redraw with no change to nodes,
\* tree or view leaves every remembered offset as it was.
C20_NoDrift ==
    [][(last' = "reset_view" /\ ws' = ws) => route'.offsets = route.offsets]_vars

\* ------------------------------------------------------------ C19
\* The handlers that end with a full redraw.
RedrawHandlers ==
    {"new_root", "add_child", "on_double_click", "delete_selected", "auto_layout",
     "load", "on_drag", "pan_by", "zoom", "reset_view"}

\* The step is a handler with a full redraw that ran to its end: it changed
\* the workspace, raised nothing and did not hang.
CompletedRedraw ==
    /\ last' \in RedrawHandlers
    /\ ws' # Begin(ws)
    /\ ws'.exc = "none"
    /\ ~ws'.hung

\* C19: after every completed full redraw the keys of the edge-offset memory
\* are exactly the (parent, child) pairs of the children lists.
C19_MemoryKeys ==
    [][CompletedRedraw => ws'.edge_offsets = Range(Edges(ws'))]_vars

\* A delete has removed one of three nodes created, and the memory holds
\* the one edge that is left.
C19_Witness ==
    /\ last = "delete_selected"
    /\ ws.exc = "none"
    /\ ws.next_id = 4
    /\ Len(ws.order) = 2
    /\ ws.edge_offsets # {}
    /\ ws.edge_offsets = Range(Edges(ws))

\* ------------------------------------------------------------ forests
\* The specification ForestSpec loads a document with the nodes 1..n,
\* n <= MaxForestId, in which every node names at most one parent, any node
\* or itself, and lists its children by ascending or by descending id, and
\* applies auto_layout to it.  A child may stand before its parent in the
\* node table, and the parents may form a cycle.
MaxForestId == 5

\* The ids of S in ascending order.
RECURSIVE Ascending(_)
Ascending(S) ==
    IF S = {} THEN <<>>
    ELSE LET m == CHOOSE x \in S : \A y \in S : x <= y
         IN  <<m>> \o Ascending(S \ {m})

Reversed(s) == [i \in 1..Len(s) |-> s[Len(s) + 1 - i]]

\* The children list of the node i under the parent vector p.
ForestChildren(n, p, i, descending) ==
    LET own == Ascending({c \in 1..n : p[c] = i})
    IN  IF descending THEN Reversed(own) ELSE own

ForestDoc(n, p, r, descending) ==
    MakeDoc([i \in 1..n |-> i], [i \in 1..n |-> ForestChildren(n, p, i, descending)],
            r, None, FALSE)

ForestDocs(n) ==
    {ForestDoc(n, p, r, descending) :
        p \in [1..n -> 0..n], r \in 1..n, descending \in BOOLEAN}

\* load, of a document of this family.
LoadForest ==
    /\ ws = EmptyWorkspace
    /\ \E n \in 1..MaxForestId : \E doc \in ForestDocs(n) : ws' = LoadHandler(doc)
    /\ declared' = None
    /\ last' = "load"
    /\ UNCHANGED <<run, events, route, markup>>

ForestNext ==
    \/ LoadForest
    \/ AutoLayout

ForestSpec == Init /\ [][ForestNext]_vars

\* ------------------------------------------------------------ C21: depths
\* The children lists of the whole node table form a forest: every id they
\* name is a node, none is named twice, no node lies under itself, and the
\* parent map names the node whose list holds the child.
ForestLists(w) ==
    /\ \A p \in DOMAIN w.nodes : Range(w.nodes[p].children) \subseteq DOMAIN w.nodes
    /\ \A p, q \in DOMAIN w.nodes :
          \A i \in 1..Len(w.nodes[p].children) : \A j \in 1..Len(w.nodes[q].children) :
             w.nodes[p].children[i] = w.nodes[q].children[j] => (p = q /\ i = j)
    /\ \A p \in DOMAIN w.nodes : p \notin Closure(w.nodes, Range(w.nodes[p].children))
    /\ \A p \in DOMAIN w.nodes : \A c \in Range(w.nodes[p].children) : Get(w.parent, c) = p
    /\ \A c \in DOMAIN w.nodes :
          Get(w.parent, c) # None => (Get(w.parent, c) \in DOMAIN w.nodes
                                      /\ c \in Range(w.nodes[Get(w.parent, c)].children))

\* What C21 says of the depths d of the workspace w.
DepthsAsStated(w, d) ==
    LET root == LayoutRoot(w)
    IN  /\ d[root] = 0
        /\ \A n \in Reach(w) \ {root} : d[n] = d[Get(w.parent, n)] + 1
        /\ \A n \in DOMAIN w.nodes \ Reach(w) :
              d[n] = IF Get(w.parent, n) = None THEN 0 ELSE d[Get(w.parent, n)] + 1

\* C21: after auto_layout of a forest, the root has depth 0, a node reached
\* from the root has the depth of its parent + 1, and a node not reached from
\* the root has depth 0 without a parent and else the depth given to its
\* parent + 1, whatever the order of the node table.
C21_DepthByParent ==
    (LaidOut /\ ForestLists(ws)) =>
        DepthsAsStated(ws, ComputeDepths(ws, LayoutRoot(ws)).dep.val)

\* ------------------------------------------------------------ C22: slots
\* The k-th value of the ascending symmetric sequence of length n:
\* -0.5, 0.5, ... around 0 for even n and ..., -1, 0, 1, ... for odd n.
SymmetricValue(n, k) == (2 * k - n - 1) * (Unit \div 2)

\* The slot of the parent of n, 0 for a node without a parent.
StatedParentSlot(w, slots, n) ==
    IF Get(w.parent, n) = None THEN 0 ELSE slots[Get(w.parent, n)]

\* The index of n in the children list of its parent, from 0.
StatedOrdinal(w, n) ==
    IF Get(w.parent, n) = None THEN 0
    ELSE Max2(IndexOf(w.nodes[Get(w.parent, n)].children, n) - 1, 0)

\* slot = value * (1 - w) + parentSlot * w, with w = 0 or 1/4, times 4.
StatedSlotTimes4(w, slots, n, value) ==
    IF Get(w.parent, n) = None \/ Get(w.parent, n) = LayoutRoot(w) THEN 4 * value
    ELSE 3 * value + StatedParentSlot(w, slots, n)

\* The nodes of the depth k with the direction d.
Bucket(w, k, d) ==
    {n \in DOMAIN w.nodes :
        /\ ComputeDepths(w, LayoutRoot(w)).dep.val[n] = k
        /\ AssignDirections(w.nodes, LayoutRoot(w)).directions[n] = d}

\* What C22 says of the slots of the bucket B, which takes its values from
\* the symmetric sequence of length n: some order of B ascending by (parent
\* slot, ordinal) gives its k-th node the k-th value blended with the
\* parent's slot.
BucketAsStated(w, slots, B, n) ==
    \E f \in [1..Cardinality(B) -> B] :
        /\ \A i, j \in 1..Cardinality(B) : i # j => f[i] # f[j]
        /\ \A i, j \in 1..Cardinality(B) :
              i < j =>
                 \/ StatedParentSlot(w, slots, f[i]) < StatedParentSlot(w, slots, f[j])
                 \/ /\ StatedParentSlot(w, slots, f[i]) = StatedParentSlot(w, slots, f[j])
                    /\ StatedOrdinal(w, f[i]) <= StatedOrdinal(w, f[j])
        /\ \A i \in 1..Cardinality(B) :
              4 * slots[f[i]] = StatedSlotTimes4(w, slots, f[i], SymmetricValue(n, i))

SlotsAsStated(w, slots) ==
    /\ slots[LayoutRoot(w)] = 0
    /\ \A k \in 1..Cardinality(DOMAIN w.nodes) :
          LET left  == Bucket(w, k, -1)
              right == Bucket(w, k, 1)
              n     == Max2(Cardinality(left), Cardinality(right))
          IN  BucketAsStated(w, slots, left, n) /\ BucketAsStated(w, slots, right, n)

\* Every parent stands before its children in the node table.
ParentsFirst(w) ==
    \A c \in DOMAIN w.nodes :
       Get(w.parent, c) # None => IndexOf(w.order, Get(w.parent, c)) < IndexOf(w.order, c)

NodeDepthStart(nid) == [current |-> nid, depth |-> 0, visited |-> {}, done |-> FALSE]

\* A faulty round that never looks at the visited set; C23_DepthLookup tells
\* it apart.
NodeDepthRoundUnguarded(parent, st) ==
    LET parent_id == Get(parent, st.current)
    IN  IF parent_id = None
        THEN [st EXCEPT !.done = TRUE]
        ELSE [st EXCEPT !.depth = @ + 1, !.visited = @ \cup {st.current},
                        !.current = parent_id]

\* One round of the while loop of _node_depth.
NodeDepthRound(parent, st) ==
    LET parent_id == Get(parent, st.current)
    IN  IF parent_id = None \/ parent_id \in st.visited
        THEN [st EXCEPT !.done = TRUE]
        ELSE [st EXCEPT !.depth = @ + 1, !.visited = @ \cup {st.current},
                        !.current = parent_id]

\* The loop of _node_depth cut off after the given number of rounds.
RECURSIVE NodeDepthRounds(_, _, _)
NodeDepthRounds(parent, st, rounds) ==
    IF st.done \/ rounds = 0 THEN st
    ELSE NodeDepthRounds(parent, NodeDepthRound(parent, st), rounds - 1)

\* The nodes the node n lies under.
Ancestors(w, n) ==
    {a \in DOMAIN w.nodes : n \in Closure(w.nodes, Range(w.nodes[a].children))}

\* C23: for every node of a loaded document, whatever its parent map
\* (self-parents and parent cycles included), the loop of _node_depth breaks
\* within one round per node and one more, and its result, which gives the
\* drawn node its fill, is at most the number of nodes; in a forest it is the
\* number of the node's ancestors.
C23_DepthLookup ==
    (last = "load" /\ ws.exc = "none") =>
        \A nid \in DOMAIN ws.nodes :
           LET n  == Cardinality(DOMAIN ws.nodes)
               st == NodeDepthRounds(ws.parent, NodeDepthStart(nid), n + 1)
           IN  /\ st.done
               /\ st.depth <= n
               /\ ws.nodes[nid].fill = DefaultFillForDepth(st.depth)
               /\ ForestLists(ws) => st.depth = Cardinality(Ancestors(ws, nid))

\* A loaded document with a parent cycle of three nodes and a node that is
\* its own parent.
C23_Witness ==
    /\ last = "load"
    /\ ws.exc = "none"
    /\ Cardinality(DOMAIN ws.nodes) = MaxForestId
    /\ \E a, b, c \in DOMAIN ws.nodes :
          /\ Cardinality({a, b, c}) = 3
          /\ ws.parent[a] = b /\ ws.parent[b] = c /\ ws.parent[c] = a
          /\ NodeDepth(ws.parent, a) = 2
    /\ \E d \in DOMAIN ws.nodes : ws.parent[d] = d /\ NodeDepth(ws.parent, d) = 1

\* ------------------------------------------------------------ markup
\* A text is a sequence of characters of Alphabet: a plain character, the
\* two marker characters and the newline.  The specification MarkupSpec
\* follows a text that grows by one character per edit, up to MaxTextLen
\* characters, and is parsed after each edit as _render_node_text does.
MaxTextLen == 6

Alphabet == {"a", "*", "_", "\n"}

\* text.split("\n"), from the position i with the line cur under way.
RECURSIVE SplitFrom(_, _, _)
SplitFrom(text, i, cur) ==
    IF i > Len(text) THEN <<cur>>
    ELSE IF text[i] = "\n" THEN <<cur>> \o SplitFrom(text, i + 1, <<>>)
    ELSE SplitFrom(text, i + 1, Append(cur, text[i]))

\* text.split("\n") if text else [""]
SplitLines(text) == IF text = <<>> THEN << <<>> >> ELSE SplitFrom(text, 1, <<>>)

\* if buf: segments.append((''.join(buf), bold, italic))
Flush(segments, buf, bold, italic) ==
    IF buf = <<>> THEN segments
    ELSE Append(segments, [text |-> buf, bold |-> bold, italic |-> italic])

\* A faulty toggle that only ever switches a style on; C24_Markup tells it
\* apart.
ToggleOn(flag) == TRUE

\* bold = not bold, italic = not italic
Toggle(flag) == ~flag

\* The while loop of _parse_formatted_lines over the line raw, from the
\* position i, and the flush after it: as [segments, bold, italic].
RECURSIVE ParseLine(_, _, _, _, _, _)
ParseLine(raw, i, buf, segments, bold, italic) ==
    IF i > Len(raw)
    THEN [segments |-> Flush(segments, buf, bold, italic), bold |-> bold, italic |-> italic]
    ELSE IF i < Len(raw) /\ raw[i] = "*" /\ raw[i + 1] = "*"
    THEN ParseLine(raw, i + 2, <<>>, Flush(segments, buf, bold, italic), Toggle(bold), italic)
    ELSE IF raw[i] = "_"
    THEN ParseLine(raw, i + 1, <<>>, Flush(segments, buf, bold, italic), bold, Toggle(italic))
    ELSE ParseLine(raw, i + 1, Append(buf, raw[i]), segments, bold, italic)

\* The for loop of _parse_formatted_lines, from the k-th line on.
RECURSIVE ParseLines(_, _, _, _, _)
ParseLines(lines, k, bold, italic, parsed) ==
    IF k > Len(lines) THEN parsed
    ELSE LET r == ParseLine(lines[k], 1, <<>>, <<>>, bold, italic)
             segments == IF r.segments = <<>>
                         THEN <<[text |-> <<" ">>, bold |-> bold, italic |-> italic]>>
                         ELSE r.segments
         IN  ParseLines(lines, k + 1, r.bold, r.italic, Append(parsed, segments))

\* _parse_formatted_lines
ParseFormattedLines(text) == ParseLines(SplitLines(text), 1, FALSE, FALSE, <<>>)

MarkupInit ==
    /\ ws = EmptyWorkspace
    /\ last = "init"
    /\ declared = None
    /\ run = IdleRun
    /\ events = 0
    /\ route = NoRoute
    /\ markup = [text |-> <<>>, parsed |-> ParseFormattedLines(<<>>)]

\* An edit that adds the character c at the end of the text, and the parse
\* of the new text.
EditText(c) ==
    /\ Len(markup.text) < MaxTextLen
    /\ markup' = [text |-> Append(markup.text, c),
                  parsed |-> ParseFormattedLines(Append(markup.text, c))]
    /\ last' = "edit"
    /\ UNCHANGED <<ws, declared, run, events, route>>

MarkupNext == \E c \in Alphabet : EditText(c)

MarkupSpec == MarkupInit /\ [][MarkupNext]_vars

\* ------------------------------------------------------------ C24: markup parsing
\* What each character of the line raw is, scanning from the position i:
\* "b" for each of the two characters of a ** marker, "i" for a _ marker and
\* "p" for a character that is kept.
RECURSIVE Kinds(_, _)
Kinds(raw, i) ==
    IF i > Len(raw) THEN <<>>
    ELSE IF i < Len(raw) /\ raw[i] = "*" /\ raw[i + 1] = "*"
    THEN <<"b", "b">> \o Kinds(raw, i + 2)
    ELSE IF raw[i] = "_" THEN <<"i">> \o Kinds(raw, i + 1)
    ELSE <<"p">> \o Kinds(raw, i + 1)

\* The positions of the line raw that hold a kept character.
KeptPositions(raw) == {i \in 1..Len(raw) : Kinds(raw, 1)[i] = "p"}

\* The line with all markers removed.
MarkersRemoved(raw) ==
    LET kept == Ascending(KeptPositions(raw))
    IN  [j \in 1..Len(kept) |-> raw[kept[j]]]

\* The number of ** markers, and of _ markers, before the position i of the
\* line raw.
BoldMarkersBefore(raw, i) == Cardinality({j \in 1..(i - 1) : Kinds(raw, 1)[j] = "b"}) \div 2
ItalicMarkersBefore(raw, i) == Cardinality({j \in 1..(i - 1) : Kinds(raw, 1)[j] = "i"})

\* The number of markers of the lines before the k-th.
RECURSIVE BoldMarkersAbove(_, _)
BoldMarkersAbove(lines, k) ==
    IF k <= 1 THEN 0
    ELSE BoldMarkersAbove(lines, k - 1)
         + BoldMarkersBefore(lines[k - 1], Len(lines[k - 1]) + 1)

RECURSIVE ItalicMarkersAbove(_, _)
ItalicMarkersAbove(lines, k) ==
    IF k <= 1 THEN 0
    ELSE ItalicMarkersAbove(lines, k - 1)
         + ItalicMarkersBefore(lines[k - 1], Len(lines[k - 1]) + 1)

\* The styles in force at the position i of the k-th line: each marker so
\* far has toggled its style, from plain at the start of the text.
BoldAt(lines, k, i) == (BoldMarkersAbove(lines, k) + BoldMarkersBefore(lines[k], i)) % 2 = 1
ItalicAt(lines, k, i) == (ItalicMarkersAbove(lines, k) + ItalicMarkersBefore(lines[k], i)) % 2 = 1

\* The texts of the segments, one after the other.
RECURSIVE ConcatTexts(_)
ConcatTexts(segments) ==
    IF segments = <<>> THEN <<>>
    ELSE Head(segments).text \o ConcatTexts(Tail(segments))

\* The segment that holds the j-th character of the concatenated texts.
RECURSIVE SegmentOf(_, _)
SegmentOf(segments, j) ==
    IF j <= Len(Head(segments).text) THEN Head(segments)
    ELSE SegmentOf(Tail(segments), j - Len(Head(segments).text))

\* The lines joined by newlines.
RECURSIVE JoinLines(_)
JoinLines(lines) ==
    IF Len(lines) = 1 THEN lines[1]
    ELSE lines[1] \o <<"\n">> \o JoinLines(Tail(lines))

\* The lines of a text: they hold no newline and give the text back when
\* joined by newlines.
IsSplitOf(lines, text) ==
    /\ Len(lines) >= 1
    /\ \A k \in 1..Len(lines) : \A i \in 1..Len(lines[k]) : lines[k][i] # "\n"
    /\ JoinLines(lines) = text

\* No marker appears in the segment text: no _ and no two * in a row.
MarkerFree(t) ==
    /\ \A i \in 1..Len(t) : t[i] # "_"
    /\ \A i \in 1..(Len(t) - 1) : ~(t[i] = "*" /\ t[i + 1] = "*")

\* The segments of the k-th line are the line without its markers, each
\* character with the styles in force where it stands.
LineSegmentsAsStated(lines, k, segments) ==
    LET kept == Ascending(KeptPositions(lines[k]))
    IN  /\ ConcatTexts(segments) = MarkersRemoved(lines[k])
        /\ \A j \in 1..Len(kept) :
              /\ SegmentOf(segments, j).bold = BoldAt(lines, k, kept[j])
              /\ SegmentOf(segments, j).italic = ItalicAt(lines, k, kept[j])

\* The one segment of a line that keeps no character: a space in the styles
\* the line started in.
PlaceholderAsStated(lines, k, segments) ==
    segments = <<[text |-> <<" ">>, bold |-> BoldAt(lines, k, 1),
                  italic |-> ItalicAt(lines, k, 1)]>>

\* What C24 says of the parse of a text, but for the texts of a line without
\* segments.
MarkupAsStated(text, parsed) ==
    LET lines == SplitLines(text)
    IN  /\ IsSplitOf(lines, text)
        /\ Len(parsed) = Len(lines)
        /\ \A k \in 1..Len(lines) :
              /\ \A s \in 1..Len(parsed[k]) :
                    parsed[k][s].text # <<>> /\ MarkerFree(parsed[k][s].text)
              /\ IF KeptPositions(lines[k]) # {}
                 THEN LineSegmentsAsStated(lines, k, parsed[k])
                 ELSE PlaceholderAsStated(lines, k, parsed[k])

\* C24: the parse has one list of segments per line of the text; no segment
\* holds a marker; on a line that keeps a character the segment texts, one
\* after the other, are the line with its markers removed and every segment
\* has the bold and italic state in force for its characters, each ** and _
\* so far (on this line and the lines before) having toggled its style; a
\* line that keeps no character yields the one segment (" ", bold, italic)
\* in the state the line started in.
C24_Markup == MarkupAsStated(markup.text, markup.parsed)

\* C24 as first stated: the segment texts of every line, also of one that
\* keeps no character, are the line with its markers removed.
C24_MarkupEveryLine ==
    /\ MarkupAsStated(markup.text, markup.parsed)
    /\ \A k \in 1..Len(markup.parsed) :
          ConcatTexts(markup.parsed[k]) = MarkersRemoved(SplitLines(markup.text)[k])

\* A parsed text of two lines: bold is switched on in the first line and is
\* in force for a character of the second, which also has an italic
\* character.
C24_Witness ==
    /\ last = "edit"
    /\ Len(markup.parsed) = 2
    /\ Len(markup.parsed[1]) = 1
    /\ markup.parsed[1][1].bold
    /\ \E s \in 1..Len(markup.parsed[2]) :
          /\ markup.parsed[2][s].bold
          /\ markup.parsed[2][s].italic
          /\ markup.parsed[2][s].text = <<"a">>

\* ------------------------------------------------------------ node sizes and edge anchors
\* The specification AnchorSpec builds a map with new_root and add_child,
\* selects nodes by clicks, edits the text of the selected node and zooms up
\* to MaxAnchorZooms times.  Sizes
\* are in pixels; canvas points are in steps of 1/Unit pixel.

\* The metrics of the node font (src/MindMap.py:15, 89), taken as those of
\* a fixed-pitch font: the width of a character and the line height.
FontCharWidth == 7
FontLineSpace == 16

\* font.measure(segment)
Measure(text) == FontCharWidth * Len(text)

RECURSIVE LineWidth(_)
LineWidth(segments) ==
    IF segments = <<>> THEN 0
    ELSE Measure(Head(segments).text) + LineWidth(Tail(segments))

RECURSIVE MaxLineWidth(_)
MaxLineWidth(parsed) ==
    IF parsed = <<>> THEN 0
    ELSE Max2(LineWidth(Head(parsed)), MaxLineWidth(Tail(parsed)))

\* _update_node_size: the cached logical size w, h of a node with the given
\* text, never below the default size.
UpdateNodeSize(nd, text) ==
    LET parsed == ParseFormattedLines(text)
        width  == MaxLineWidth(parsed) + 14 * 2
        height == Len(parsed) * FontLineSpace + 4 * Max2(0, Len(parsed) - 1) + 12 + 12
    IN  [k \in DOMAIN nd \cup {"w", "h"} |->
            IF k = "w" THEN Max2(width, NODE_W)
            ELSE IF k = "h" THEN Max2(height, NODE_H)
            ELSE nd[k]]

\* node.get("w", NODE_W), node.get("h", NODE_H): a node that was never
\* sized has the default size, which is also the size _create_node caches
\* for the texts "Root" and "New Node".
NodeW(nd) == IF "w" \in DOMAIN nd THEN nd.w ELSE NODE_W
NodeH(nd) == IF "h" \in DOMAIN nd THEN nd.h ELSE NODE_H

\* new_text.rstrip("\n")
RECURSIVE RStripNewlines(_)
RStripNewlines(text) ==
    IF text # <<>> /\ text[Len(text)] = "\n"
    THEN RStripNewlines(SubSeq(text, 1, Len(text) - 1)) ELSE text

\* persist_text of edit_selected: the selected node takes the new text, or
\* " " for a blank one, and is sized again.
PersistTextHandler(w0, new_text) ==
    LET w == Begin(w0)
        nid == w.selected
    IN  IF nid = None THEN w
        ELSE IF nid \notin DOMAIN w.nodes THEN [w EXCEPT !.exc = "KeyError"]
        ELSE LET stripped == RStripNewlines(new_text)
                 text == IF \A i \in 1..Len(stripped) : stripped[i] \in {" ", "\n"}
                         THEN <<" ">> ELSE stripped
             IN  [w EXCEPT !.nodes[nid] = UpdateNodeSize([@ EXCEPT !.text = text], text)]

\* _node_center
NodeCenter(w, nid) == ToCanvasPoint(w, w.nodes[nid].x, w.nodes[nid].y)

Sign(v) == IF v < 0 THEN -1 ELSE IF v > 0 THEN 1 ELSE 0

\* margin = max(1.5, scale * 1.2)
ExitMargin(w) == Max2((3 * Unit) \div 2, MulDiv(12 * Unit, w.scale, 10 * ScaleUnit))

\* max(size * scale / 2, 1.0)
HalfExtent(w, size) == Max2(MulDiv(size * Unit, w.scale, 2 * ScaleUnit), Unit)

\* _edge_exit_point, for a target on the horizontal or the vertical through
\* the node's centre, where the square root is a plain absolute value: the
\* point on the ellipse towards the target, moved outwards by the margin.
\* Other targets are not modelled (exact is FALSE).  A distance below 1e-4
\* is 0 in steps of 1/Unit.
EdgeExitPoint(w, nid, target_x, target_y) ==
    LET c  == NodeCenter(w, nid)
        a  == HalfExtent(w, NODE_W)
        b  == HalfExtent(w, NODE_H)
        near == target_x = c[1] /\ target_y = c[2]
        dx == IF near THEN 0 ELSE target_x - c[1]
        dy == IF near THEN b ELSE target_y - c[2]
    IN  IF dy = 0
        THEN [exact |-> TRUE, x |-> c[1] + Sign(dx) * (a + ExitMargin(w)), y |-> c[2]]
        ELSE IF dx = 0
        THEN [exact |-> TRUE, x |-> c[1], y |-> c[2] + Sign(dy) * (b + ExitMargin(w))]
        ELSE [exact |-> FALSE, x |-> c[1], y |-> c[2]]

\* The texts an edit may store: a short one, one of 30 characters and one of
\* three lines.
MaxWideText == 30

AnchorTexts ==
    {<<"a">>, [i \in 1..MaxWideText |-> "a"], <<"a", "\n", "*", "*", "a", "\n", "a">>}

\* edit_selected, confirmed with one of the texts.
PersistText ==
    /\ ~ws.hung
    /\ ws.selected # None
    /\ \E t \in AnchorTexts : ws' = PersistTextHandler(ws, t)
    /\ last' = "edit_selected"
    /\ UNCHANGED <<declared, run, events, route, markup>>

\* Ctrl-plus or Ctrl-minus: a zoom about the canvas centre.
MaxAnchorZooms == 1

AnchorZoom ==
    /\ events < MaxAnchorZooms
    /\ \E factor \in {ZOOM_STEP, ZoomOutFactor} : ws' = ZoomHandler(ws, factor, <<>>)
    /\ last' = "zoom"
    /\ events' = events + 1
    /\ UNCHANGED <<declared, run, route, markup>>

AnchorNext ==
    \/ NewRoot
    \/ AddChild
    \/ OnClickNode
    \/ PersistText
    \/ AnchorZoom

AnchorSpec == Init /\ [][AnchorNext]_vars

\* ------------------------------------------------------------ C25: anchors
\* The start and the end of the rendered edge e, as _render_edge asks for
\* them: each node's exit point towards the centre of the other.
EdgeStart(w, e) ==
    EdgeExitPoint(w, e[1], NodeCenter(w, e[2])[1], NodeCenter(w, e[2])[2])
EdgeEnd(w, e) ==
    EdgeExitPoint(w, e[2], NodeCenter(w, e[1])[1], NodeCenter(w, e[1])[2])

\* The exit point p of the node nid lies on the ellipse with the semi-axes
\* of the node's own cached size times the scale, moved out by the margin.
OnOwnEllipse(w, nid, p) ==
    LET c == NodeCenter(w, nid)
    IN  \/ /\ p.y = c[2]
           /\ Abs(p.x - c[1]) = MulDiv(NodeW(w.nodes[nid]) * Unit, w.scale, 2 * ScaleUnit)
                                + ExitMargin(w)
        \/ /\ p.x = c[1]
           /\ Abs(p.y - c[2]) = MulDiv(NodeH(w.nodes[nid]) * Unit, w.scale, 2 * ScaleUnit)
                                + ExitMargin(w)

\* C25: the exit point of every edge end lies on the ellipse of that node's
\* own cached width and height times the scale (plus the outward margin),
\* also for a node wider or taller than the default.
C25_AnchorOnOwnEllipse ==
    ws.exc = "none" =>
        \A i \in 1..Len(Edges(ws)) :
           LET e == Edges(ws)[i]
           IN  (e[1] \in DOMAIN ws.nodes /\ e[2] \in DOMAIN ws.nodes) =>
                  /\ EdgeStart(ws, e).exact => OnOwnEllipse(ws, e[1], EdgeStart(ws, e))
                  /\ EdgeEnd(ws, e).exact => OnOwnEllipse(ws, e[2], EdgeEnd(ws, e))

\* ------------------------------------------------------------ control points
\* _edge_control_points for an edge whose start and end lie on one horizontal
\* or vertical, at least a pixel apart: the unit vector (nx, ny) along the
\* edge has the entries -1, 0, 1 and every hypot is an absolute value.
\* Lengths are in steps of 1/Unit pixel, the smoothing factor in steps of
\* 1/ScaleUnit; products and quotients are rounded.

\* a * ScaleUnit / b rounded down, digit by digit so that no product
\* overflows.
RECURSIVE RatioFrom(_, _, _)
RatioFrom(a, b, digits) ==
    IF digits = 0 THEN [q |-> a \div b, r |-> a % b]
    ELSE LET p == RatioFrom(a, b, digits - 1)
         IN  [q |-> 10 * p.q + (10 * p.r) \div b, r |-> (10 * p.r) % b]

Ratio(a, b) == RatioFrom(a, b, 4).q

\* NODE_W * scale and NODE_H * scale
ScaledW(w) == MulDiv(NODE_W * Unit, w.scale, ScaleUnit)
ScaledH(w) == MulDiv(NODE_H * Unit, w.scale, ScaleUnit)

\* smoothing = min(1.0, max(0.25, dist / (NODE_W * scale * 1.25)))
Smoothing(w, dist) ==
    Min2(ScaleUnit, Max2(ScaleUnit \div 4, Ratio(dist, MulDiv(ScaledW(w), 5, 4))))

\* Twice the spread of the child among its siblings: idx - (len - 1) / 2.
SpreadTimes2(w, pid, cid) ==
    LET siblings == w.nodes[pid].children
    IN  IF Len(siblings) > 1 /\ cid \in Range(siblings)
        THEN 2 * (IndexOf(siblings, cid) - 1) - (Len(siblings) - 1)
        ELSE 0

\* lateral, before extra_lateral is added
BaseLateral(w, pid, cid, dist) ==
    LET l == MulDiv(MulDiv(SpreadTimes2(w, pid, cid) * ScaledH(w), 16, 100),
                    Smoothing(w, dist), ScaleUnit)
    IN  IF 4 * dist < 3 * ScaledW(w) THEN MulDiv(l, 4, 10) ELSE l

\* base_pull
BasePull(w, dist) ==
    LET s == Smoothing(w, dist)
        b == Min2(Max2(MulDiv(dist, 22, 100), MulDiv(ScaledW(w), 3, 10)),
                  MulDiv(ScaledW(w), 105, 100))
    IN  IF 4 * dist < 3 * ScaledW(w) THEN MulDiv(dist, 3, 10)
        ELSE MulDiv(b, (3 * ScaleUnit) \div 4 + MulDiv(s, 55, 100), ScaleUnit)

\* The loop over the other nodes pushes no control point: every other node
\* projects outside the segment (t <= 0 or t >= 1) or stands farther from it
\* than safety + node_radius, which is below (80 + 85 + 18) * scale.
NothingPushes(w, pid, cid, sx, sy, nx, ny, dist) ==
    \A other_id \in DOMAIN w.nodes \ {pid, cid} :
       LET o == NodeCenter(w, other_id)
           along == (o[1] - sx) * nx + (o[2] - sy) * ny
           across == (o[1] - sx) * (-ny) + (o[2] - sy) * nx
       IN  \/ along <= 0
           \/ along >= dist
           \/ Abs(across) >= MulDiv(183 * Unit, w.scale, ScaleUnit)

\* min_offset = NODE_H * scale * 0.1 + 3
MinOffset(w) == MulDiv(ScaledH(w), 1, 10) + 3 * Unit

\* clamp_point, on the point given by its parts along and across the edge
ClampPoint(w, dist, along, perp) ==
    LET s == Smoothing(w, dist)
        max_perp  == Max2(MulDiv(ScaledH(w), MulDiv(s, 4, 10) + (18 * ScaleUnit) \div 100,
                                 ScaleUnit),
                          MulDiv(dist, 22, 100))
        min_along == MulDiv(dist, 1, 10)
        max_along == dist - min_along
    IN  [along |-> Max2(min_along, Min2(max_along, along)),
         perp  |-> IF Abs(perp) > max_perp THEN Sign(perp) * max_perp ELSE perp]

\* The loop body of orient for one point: signed_distance is minus the part
\* across the edge, and the nudge adds desired * delta to that part.
OrientPoint(w, point, desired) ==
    LET signed_distance == -point.perp
    IN  IF signed_distance * desired < MinOffset(w)
        THEN LET delta == MinOffset(w) - signed_distance * desired
             IN  [along |-> point.along, perp |-> point.perp + desired * delta,
                  adjust |-> delta]
        ELSE [along |-> point.along, perp |-> point.perp, adjust |-> 0]

\* orient(base_sign), as [cp1, cp2, adjust]
Orient(w, cp1, cp2, base_sign) ==
    LET p1 == OrientPoint(w, cp1, base_sign)
        p2 == OrientPoint(w, cp2, base_sign)
    IN  [cp1 |-> p1, cp2 |-> p2, adjust |-> p1.adjust + p2.adjust]

\* bias = 0.04
OrientBias == (4 * Unit) \div 100

\* _edge_control_points, as [exact, cp1, cp2] with each control point given
\* by its parts along and across the edge from the start: the canvas point
\* is start + (nx, ny) * along + (-ny, nx) * perp.
EdgeControlPoints(w, pid, cid, sx, sy, ex, ey, extra_lateral) ==
    LET dx == ex - sx
        dy == ey - sy
        dist == Abs(dx) + Abs(dy)
        nx == Sign(dx)
        ny == Sign(dy)
    IN  IF (dx # 0 /\ dy # 0) \/ dist < Unit
           \/ ~NothingPushes(w, pid, cid, sx, sy, nx, ny, dist)
        THEN [exact |-> FALSE]
        ELSE
        LET lateral == BaseLateral(w, pid, cid, dist) + extra_lateral
            pull == BasePull(w, dist)
            cp1 == ClampPoint(w, dist, pull, lateral)
            cp2 == ClampPoint(w, dist, dist - pull, lateral)
            pos == Orient(w, cp1, cp2, 1)
            neg == Orient(w, cp1, cp2, -1)
            bias == IF lateral >= 0 THEN OrientBias ELSE -OrientBias
            chosen == IF pos.adjust + Max2(0, -bias) <= neg.adjust + Max2(0, bias)
                      THEN pos ELSE neg
        IN  [exact |-> TRUE, cp1 |-> chosen.cp1, cp2 |-> chosen.cp2,
             sx |-> sx, sy |-> sy, nx |-> nx, ny |-> ny, min_offset |-> MinOffset(w)]

\* The control points of the edge e for the candidate offset, in pixels.
ControlPointsOf(w, e, offset) ==
    LET start == EdgeStart(w, e)
        end   == EdgeEnd(w, e)
    IN  IF start.exact /\ end.exact
        THEN EdgeControlPoints(w, e[1], e[2], start.x, start.y, end.x, end.y, offset * Unit)
        ELSE [exact |-> FALSE]

\* ------------------------------------------------------------ C26: clamp and orient
\* C26: for every edge and every candidate offset, the two control points lie
\* on the same side of the straight line from start to end, each at least
\* the minimum offset NODE_H * scale * 0.1 + 3 away from it.
C26_ControlPointsClear ==
    ws.exc = "none" =>
        \A i \in 1..Len(Edges(ws)) : \A k \in 1..Len(OffsetSteps) :
           LET e  == Edges(ws)[i]
               cp == IF e[1] \in DOMAIN ws.nodes /\ e[2] \in DOMAIN ws.nodes
                     THEN ControlPointsOf(ws, e, OffsetSteps[k]) ELSE [exact |-> FALSE]
           IN  cp.exact =>
                  /\ Sign(cp.cp1.perp) = Sign(cp.cp2.perp)
                  /\ Abs(cp.cp1.perp) >= cp.min_offset
                  /\ Abs(cp.cp2.perp) >= cp.min_offset

\* ------------------------------------------------------------ C27: children exist
\* C27: every id in a children list is the id of a node of the node table.
C27_ChildrenExist ==
    \A p \in DOMAIN ws.nodes : Range(ws.nodes[p].children) \subseteq DOMAIN ws.nodes

\* ------------------------------------------------------------ drags and deletions
\* The specification DragSpec interleaves the mouse events on a node (press,
\* motion with the button down, release) with the Delete key and with loads
\* of a document, up to MaxEvents presses, motions and loads.
DragNext ==
    \/ LoadInto
    \/ PressNode
    \/ Drag
    \/ Release
    \/ DeleteSelected

DragSpec == Init /\ [][DragNext]_vars

\* C28: whenever the drag state has the mode "node", its id is the id of a
\* node of the node table.
C28_DraggedNodeExists ==
    ws.dragging.mode = "node" => ws.dragging.id \in DOMAIN ws.nodes

\* ------------------------------------------------------------ C29: distinct positions
\* C29: after auto_layout no two nodes have the same logical position, and
\* two nodes of one direction and depth have different slots.
C29_DistinctPositions ==
    (LaidOut /\ ws.exc = "none") =>
        \A n, m \in DOMAIN ws.nodes :
           n # m =>
              /\ <<ws.nodes[n].x, ws.nodes[n].y>> # <<ws.nodes[m].x, ws.nodes[m].y>>
              /\ (/\ LayoutDirections(ws)[n] = LayoutDirections(ws)[m]
                  /\ LayoutDepths(ws)[n] = LayoutDepths(ws)[m])
                 => LayoutSlots(ws)[n] # LayoutSlots(ws)[m]

\* ------------------------------------------------------------ C30: sides
\* The position add_child prefers for a new child of the root of w.
PreferredChildPosition(w) ==
    LET root == w.nodes[w.root_id]
    IN  <<IF Len(root.children) % 2 = 1
          THEN root.x - (NODE_W + HORIZ_GAP) * Unit
          ELSE root.x + (NODE_W + HORIZ_GAP) * Unit,
          root.y>>

\* C30: when add_child gives the selected root a new child and the preferred
\* position is free, the child is created on the side of the root (the sign
\* of child.x - root.x) that _assign_directions gives it from its index in
\* the root's children list.
C30_SameSide ==
    [][(/\ last' = "add_child"
        /\ ws.selected # None
        /\ ws.selected = ws.root_id
        /\ ws.root_id \in DOMAIN ws.nodes
        /\ ws'.exc = "none"
        /\ ws'.next_id = ws.next_id + 1
        /\ IsPositionFree(ws.nodes, PreferredChildPosition(ws)[1], PreferredChildPosition(ws)[2])
        /\ AssignDirections(ws'.nodes, ws'.root_id).exc = "none")
       => LET child == ws.next_id
          IN  /\ ws'.nodes[ws'.root_id].children[Len(ws.nodes[ws.root_id].children) + 1] = child
              /\ Sign(ws'.nodes[child].x - ws'.nodes[ws'.root_id].x)
                   = AssignDirections(ws'.nodes, ws'.root_id).directions[child]]_vars

=========================================================================
